---- MODULE Spec2Model ----
(***************************************************************************)
(* A model of jsonl-db: the single-file engine jsonlFile (src/jsonlFile.js *)
(* and its TypeScript port) with its scratch-file helper temporaryFileTask,*)
(* the engine createJsonlFile (src/lib/jsonl.ts) and the facade jsonlDir.  *)
(*                                                                         *)
(* A file is a sequence of text chunks: a chunk is a newline or a piece of *)
(* text without newline (the JSON text of one record, or text that is not  *)
(* JSON).  readline's split into lines, JSON.parse and JSON.stringify are  *)
(* operators on that text.  A call that suspends between its file          *)
(* operations is modelled step by step, so that every intermediate state   *)
(* of the file system is a state of the model.                             *)
(*                                                                         *)
(* Spec         one caller, every call awaited; the file starts absent and *)
(*              changes only through the calls of jsonlFile                *)
(* SpecForeign  the reading operations of both engines and of the facade   *)
(*              on any file                                                *)
(* SpecDir      the adds of jsonlFile and of the facade on one path        *)
(* SpecConc     a second caller traversing the file during a mutation      *)
(* SpecUnawaited  an add issued without await, a mutation issued after it  *)
(* SpecAppend   the adds of both engines on any file                       *)
(* SpecAccess   the operations that check the path, with fs.access failing *)
(* SpecUpdate   updateWhere / updateMatch with the event loop's fairness   *)
(***************************************************************************)
EXTENDS Naturals, Sequences, FiniteSets

VARIABLES
  files,        \* path -> [exists, data]: the file system
  pc,           \* position of the call in flight: "idle" when none, "done" when settled
  call,         \* the call in flight or just settled
  rl,           \* the readline interface of the call: lines and position
  pending,      \* lines handed to addText/addManyText, not yet appended
  prefix,       \* the prefix ensureFileAndGetPrefix returned
  visited,      \* records passed to onLine in this call, in order
  batch,        \* readByBatch's buffer
  canEndGlobal, \* readByBatch's canEndGlobal flag
  batches,      \* batches passed to onBatch in this call, in order
  taskErr,      \* the error the scratch task rejected with, "none" if none
  threw,        \* history: the error a callback or the scratch add() raised
  result,       \* how the call settled
  pre,          \* history: the source file when the call was issued
  log,          \* history: objects added by successful add/addMany calls
  onlyAdds,     \* history: only add/addMany/read/count since the file was absent
  last,         \* history, between calls: what the previous call was
  follows,      \* history: what the call in flight follows
  found,        \* what first/last/findWhere/findMatch collected: a sequence of records;
                \* history, in an update: the records updateFn was invoked on
  lineCount,    \* the counter of countMatch and of createJsonlFile.count
  trav          \* a second caller's traversal, concurrent with the call in flight

vars == <<files, pc, call, rl, pending, prefix, visited, batch, canEndGlobal,
          batches, taskErr, threw, result, pre, log, onlyAdds, last, follows,
          found, lineCount, trav>>

\* ------------------------------------------------------------------ bounds

MaxLines == 3
MaxArr == 2
MaxBatchSize == 2
MaxChunks == 5
SmallBatch == 2

\* ------------------------------------------------------------------ data

\* the records of the tests; a field value is only ever compared with ===,
\* so the ages are kept as text
Names == {"Alice", "Bob"}
Ages == {"25", "30"}
Records == [name : Names, age : Ages]
NoRec == [name |-> "", age |-> ""]

Obj(r) == [kind |-> "obj", v |-> r]
NonObj == [kind |-> "nonobj", v |-> NoRec]
Thrown == [kind |-> "throw", v |-> NoRec]
Values == {Obj(r) : r \in Records} \cup {NonObj}
ArrayItems == {Obj([name |-> "Alice", age |-> "25"]), Obj([name |-> "Bob", age |-> "30"]), NonObj}

NL == [t |-> "nl", v |-> NoRec]

\* a piece of text that is not JSON
Junk == [t |-> "junk", v |-> NoRec]
Stringify(r) == [t |-> "json", v |-> r]

IsSingleJson(o) == o.kind = "obj"

Paths == {"src", "tmp"}
Absent == [exists |-> FALSE, data |-> << >>]

\* readline: the lines of a text; a final newline ends the last line and
\* starts no new one
RECURSIVE Split(_, _)
Split(data, cur) ==
  IF data = << >> THEN (IF cur = << >> THEN << >> ELSE <<cur>>)
  ELSE IF Head(data).t = "nl" THEN <<cur>> \o Split(Tail(data), << >>)
  ELSE Split(Tail(data), Append(cur, Head(data)))

ReadLines(data) == Split(data, << >>)

\* JSON.parse of one line: one chunk of JSON text, anything else throws
ParseOk(line) == Len(line) = 1 /\ line[1].t = "json"
Parse(line) == line[1].v

RECURSIVE JoinLines(_)
JoinLines(lines) ==
  IF lines = << >> THEN << >>
  ELSE IF Len(lines) = 1 THEN <<lines[1]>>
  ELSE <<lines[1], NL>> \o JoinLines(Tail(lines))

RECURSIVE MapStringify(_)
MapStringify(items) ==
  IF items = << >> THEN << >>
  ELSE <<Stringify(Head(items).v)>> \o MapStringify(Tail(items))

\* ------------------------------------------------------------------ callbacks

MatchFns == {"isAlice", "all", "throwsOnBob"}
UpdateFns == {"older", "rename", "throws", "nonObject"}
WhereQueries == {[attr |-> "name", value |-> "Alice"], [attr |-> "age", value |-> "30"]}

MatchFn(p, r) ==
  CASE p = "isAlice" -> (IF r.name = "Alice" THEN "true" ELSE "false")
    [] p = "all" -> "true"
    [] OTHER -> (IF r.name = "Bob" THEN "throw" ELSE "false")

UpdateFn(f, r) ==
  CASE f = "older" -> Obj([r EXCEPT !.age = "30"])
    [] f = "rename" -> Obj([r EXCEPT !.name = "Bob"])
    [] f = "throws" -> Thrown
    [] OTHER -> NonObj

\* ------------------------------------------------------------------ calls

MutationOps == {"updateWhere", "updateMatch", "deleteWhere", "deleteMatch"}
UpdateOps == {"updateWhere", "updateMatch"}
DeleteOps == {"deleteWhere", "deleteMatch"}
AddOps == {"add", "addMany"}
BatchOps == {"readByBatch", "lib.read"}

NoCall == [op |-> "none", attr |-> "", value |-> "", matchFn |-> "", updateFn |-> "",
           stopAt |-> 0, batchSize |-> 0, isArray |-> FALSE, items |-> << >>,
           impl |-> "", signal |-> "", access |-> ""]

NoResult == [status |-> "none", err |-> "none", value |-> 0, flag |-> FALSE]
Ok == [status |-> "ok", err |-> "none", value |-> 0, flag |-> FALSE]
OkValue(n) == [status |-> "ok", err |-> "none", value |-> n, flag |-> FALSE]
OkFlag(b) == [status |-> "ok", err |-> "none", value |-> 0, flag |-> b]
Err(e) == [status |-> "error", err |-> e, value |-> 0, flag |-> FALSE]

NoRl == [err |-> FALSE, lines |-> << >>, pos |-> 0, unclosed |-> 0]

\* the second caller: no traversal in flight
NoTrav == [pc |-> "idle", op |-> "none", err |-> "none", lines |-> << >>, pos |-> 0,
           seen |-> << >>, stale |-> FALSE]

\* ------------------------------------------------------------------ file system

\* faulty variant: the check answers true for every path
SafePathExistsAlways(f) == TRUE

SafePathExists(f) == f.exists

\* faulty variant: one interface kept by the instance and handed to every read
GetRlShared(p) ==
  IF last.op = "stoppedRead" /\ files[p].exists
  THEN rl
  ELSE IF files[p].exists
  THEN [err |-> FALSE, lines |-> ReadLines(files[p].data), pos |-> 0, unclosed |-> 0]
  ELSE [err |-> TRUE, lines |-> << >>, pos |-> 0, unclosed |-> 0]

\* getRl: a new interface, on a new read stream, at every call; opening a
\* path that does not exist makes the iteration reject with ENOENT
GetRl(p) ==
  IF files[p].exists
  THEN [err |-> FALSE, lines |-> ReadLines(files[p].data), pos |-> 0, unclosed |-> 0]
  ELSE [err |-> TRUE, lines |-> << >>, pos |-> 0, unclosed |-> 0]

\* the input stream when the loop over the interface is left at the k-th
\* line by break or by a throw.  Nothing destroys the stream
\* createReadStream returned: the iterator's return and rl.close() act on
\* the interface, and a closed interface only pauses its input.  The last
\* line of a file that does not end with a newline is delivered when the
\* stream ends, and a stream that has ended closes itself; left at an
\* earlier line, the stream has not reached the end of the file and its
\* descriptor is open when the call settles.
StreamLeftOpen(lines, k) == k < Len(lines)

\* unclosed counts the streams the call has left so
Abandon(r, lines, k) ==
  IF StreamLeftOpen(lines, k) THEN [r EXCEPT !.unclosed = @ + 1] ELSE r

\* faulty variant: the stream is opened for appending, which creates the file
OpenReadCreates(fs, p) == [fs EXCEPT ![p] = [exists |-> TRUE, data |-> @.data]]

\* createReadStream(path): opened for reading, the file system is left as
\* it is, an absent path stays absent
OpenRead(fs, p) == fs

\* isEmptyFile of jsonlFile: empty unless readline yields a first line
IsEmptyFile(f) ==
  IF ~SafePathExists(f) THEN TRUE ELSE Len(ReadLines(f.data)) = 0

\* isEmptyFile of jsonlFile leaves its loop by break on the first line
IsEmptyFileBreaks(f) == SafePathExists(f) /\ Len(ReadLines(f.data)) > 0

\* ensureFileAndGetPrefix: the file it leaves, and the prefix it returns
EnsureFile(f) ==
  IF ~SafePathExists(f) THEN [exists |-> TRUE, data |-> << >>] ELSE f

\* faulty variant: every append starts with a newline
GetPrefixNewline(f) == <<NL>>

GetPrefix(f) ==
  IF ~SafePathExists(f) THEN << >>
  ELSE IF IsEmptyFile(f) THEN << >> ELSE <<NL>>

\* faulty variant: writeFile in place of appendFile
OverwriteFile(f, text) == [exists |-> TRUE, data |-> text]

AppendFile(f, text) == [exists |-> TRUE, data |-> f.data \o text]

\* faulty variant: the mutation adds to the source path
AddTargetSource(op) == "src"

\* the path an add writes: the scratch file inside a mutation
AddTarget(op) == IF op \in AddOps THEN "src" ELSE "tmp"

RenameFiles(fs) == [fs EXCEPT !["src"] = fs["tmp"], !["tmp"] = Absent]

\* faulty variant: the helper leaves the scratch path behind
UnlinkNothing(fs) == fs

\* fs.unlink in the helper's finally; ENOENT is swallowed
Unlink(fs) == [fs EXCEPT !["tmp"] = Absent]

\* faulty variant: the helper catches the task's error
SwallowTaskError(e) == Ok

\* the helper passes the task's result or error through
TemporaryFileTaskResult(e) == IF e = "none" THEN Ok ELSE Err(e)

\* count of jsonlFile: the lines readline yields
CountLines(f) == Len(ReadLines(f.data))

\* the engine exists twice: src/jsonlFile.js and its TypeScript port; they
\* differ in first() and last() only
Impls == {"js", "ts"}

\* a variable that holds a line, or was never assigned
Undefined == [def |-> FALSE, line |-> << >>]
Defined(l) == [def |-> TRUE, line |-> l]

\* first(): what the loop leaves in firstLine
FirstLine(lines) == IF lines = << >> THEN Undefined ELSE Defined(lines[1])

\* faulty variant: last() stops at the first line
LastLineIsFirst(lines) == FirstLine(lines)

\* last(): what the loop leaves in lastLine
LastLine(lines) == IF lines = << >> THEN Undefined ELSE Defined(lines[Len(lines)])

\* `!firstLine`: undefined or the empty string
Falsy(l) == ~l.def \/ l.line = << >>

\* the port's `if (!firstLine) throw new Error("File is empty")`; the
\* JavaScript copy has no such test
EmptyCheckFails(impl, l) == impl = "ts" /\ Falsy(l)

\* the end of first() / last(): the emptiness test, then JSON.parse, which
\* throws on undefined, on the empty string and on any other non-JSON text
ParseFound(impl, l) ==
  IF EmptyCheckFails(impl, l) THEN [res |-> Err("FileIsEmpty"), found |-> << >>]
  ELSE IF ~l.def \/ ~ParseOk(l.line) THEN [res |-> Err("SyntaxError"), found |-> << >>]
  ELSE [res |-> Ok, found |-> <<Parse(l.line)>>]

\* ------------------------------------------------------------------ traversal

\* the match test of a mutation on one record: "true", "false" or "throw"
Matches(c, r) ==
  IF c.op \in {"updateWhere", "deleteWhere"}
  THEN (IF r[c.attr] = c.value THEN "true" ELSE "false")
  ELSE MatchFn(c.matchFn, r)

\* faulty variant: updateFn applied to every record
UpdateOutcomeEvery(c, r) ==
  IF Matches(c, r) = "throw" THEN Thrown ELSE UpdateFn(c.updateFn, r)

\* the value updateWhere/updateMatch hand to tmpFile.add for one record
UpdateOutcome(c, r) ==
  LET m == Matches(c, r) IN
  IF m = "throw" THEN Thrown
  ELSE IF m = "true" THEN UpdateFn(c.updateFn, r)
  ELSE Obj(r)

\* deleteWhere/deleteMatch: the record is kept when the test is false
DeleteKeeps(c, r) == Matches(c, r) = "false"

\* what the read callback of a mutation does with one line of the source
LineOutcome(c, line) ==
  IF ~ParseOk(line) THEN [kind |-> "fail", err |-> "SyntaxError", v |-> NoRec]
  ELSE LET r == Parse(line) IN
    IF Matches(c, r) = "throw" THEN [kind |-> "fail", err |-> "CallbackError", v |-> NoRec]
    ELSE IF c.op \in DeleteOps
      THEN (IF DeleteKeeps(c, r) THEN [kind |-> "write", err |-> "none", v |-> r]
            ELSE [kind |-> "skip", err |-> "none", v |-> NoRec])
      ELSE LET u == UpdateOutcome(c, r) IN
        IF u.kind = "throw" THEN [kind |-> "fail", err |-> "CallbackError", v |-> NoRec]
        ELSE IF ~IsSingleJson(u) THEN [kind |-> "fail", err |-> "InvalidInput", v |-> NoRec]
        ELSE [kind |-> "write", err |-> "none", v |-> u.v]

\* faulty variant: updateFn is called on every record
InvokesOnEvery(c, line) == ParseOk(line) /\ c.op \in UpdateOps

\* the callback of updateWhere / updateMatch calls updateFn on the line
Invokes(c, line) ==
  /\ ParseOk(line)
  /\ c.op \in UpdateOps
  /\ Matches(c, Parse(line)) = "true"

\* the caller's onLine / onBatch: signals stop at its stopAt-th invocation
CallbackStops(c, n) == c.stopAt = n

\* faulty variant: the loop ignores what the callback returned
ReadNeverBreaks(canEnd) == FALSE

\* read: `if (canEnd) break`
ReadBreaks(canEnd) == canEnd

\* findWhere's callback: the strict comparison of one field
WhereMatches(q, r) == r[q.attr] = q.value

\* faulty variant: the callback returns what matchFn returned
FindMatchStopsOnMatch(m) == m = "true"

\* the callbacks of findMatch and countMatch return nothing
FindMatchCanEnd(m) == FALSE

\* the callback findWhere / findMatch / countMatch hands to this.read, on one
\* record: whether it throws, keeps the record, counts it, asks to stop
ScanCallback(c, r) ==
  IF c.op = "findWhere"
  THEN LET m == WhereMatches(c, r) IN
       [throws |-> FALSE, keep |-> m, inc |-> FALSE, canEnd |-> m]
  ELSE LET m == MatchFn(c.matchFn, r) IN
       [throws |-> m = "throw",
        keep |-> c.op = "findMatch" /\ m = "true",
        inc |-> c.op = "countMatch" /\ m = "true",
        canEnd |-> FindMatchCanEnd(m)]

\* faulty variant: the final flush without the length test
FlushUnlessStopped(b, ceg) == ~ceg

\* readByBatch: the final flush
ShouldFlush(b, ceg) == Len(b) > 0 /\ ~ceg

\* faulty variant: the final flush without the stop test
LibFlushNonEmpty(b, ceg) == Len(b) > 0

\* createJsonlFile.read: the final flush
LibShouldFlush(b, ceg) == Len(b) > 0 /\ ~ceg

\* createJsonlFile: a line that is empty after trim
IsBlank(line) == line = << >>

\* faulty variant: only blank lines are skipped
LibSkipsBlankOnly(line) == IsBlank(line)

\* createJsonlFile: the lines read and readLineByLine pass over, blank ones
\* and those JSON.parse throws on
LibSkips(line) == IsBlank(line) \/ ~ParseOk(line)

\* createJsonlFile.read's default batch size
DefaultBatchSize == 1000

\* count's onBatch: lineCount += batch.length
OnBatchCount(c, n, b) == IF c.op = "lib.count" THEN n + Len(b) ELSE n

\* the operations of the facade that go through createJsonlFile.read
DirOps == {"dir.find", "dir.findOne", "dir.update", "dir.delete"}

\* the facade's onBatch on the records of one batch, one after the other:
\* what it has collected, whether matchFn or updateFn threw, whether it
\* returns true
\* faulty variant: every call of the facade collects the matching records
DirScanCollectsMatches(c, b, acc) ==
  [found |-> acc \o SelectSeq(b, LAMBDA r : MatchFn(c.matchFn, r) = "true"),
   throws |-> FALSE, canEnd |-> FALSE]

RECURSIVE DirScan(_, _, _)
DirScan(c, b, acc) ==
  IF b = << >> THEN [found |-> acc, throws |-> FALSE, canEnd |-> FALSE]
  ELSE LET r == Head(b)
           m == MatchFn(c.matchFn, r)
       IN IF m = "throw" THEN [found |-> acc, throws |-> TRUE, canEnd |-> FALSE]
          ELSE CASE c.op = "dir.findOne" ->
                      IF m = "true"
                      THEN [found |-> <<r>>, throws |-> FALSE, canEnd |-> TRUE]
                      ELSE DirScan(c, Tail(b), acc)
                 [] c.op = "dir.find" ->
                      DirScan(c, Tail(b), IF m = "true" THEN Append(acc, r) ELSE acc)
                 [] c.op = "dir.update" ->
                      IF m = "true"
                      THEN LET u == UpdateFn(c.updateFn, r) IN
                           IF u.kind = "throw"
                           THEN [found |-> acc, throws |-> TRUE, canEnd |-> FALSE]
                           ELSE DirScan(c, Tail(b), Append(acc, u.v))
                      ELSE DirScan(c, Tail(b), acc)
                 [] OTHER ->
                      DirScan(c, Tail(b), IF m = "false" THEN Append(acc, r) ELSE acc)

\* faulty variant: the facade's onBatch never asks read to stop
OnBatchNeverEnds(c, n, b, acc) ==
  IF c.op \in DirOps THEN [DirScan(c, b, acc) EXCEPT !.canEnd = FALSE]
  ELSE [found |-> acc, throws |-> FALSE, canEnd |-> CallbackStops(c, n)]

\* the onBatch of the call on its n-th batch: the caller's own callback
\* signals stop at its stopAt-th invocation, the facade's scans the batch
OnBatch(c, n, b, acc) ==
  IF c.op \in DirOps THEN DirScan(c, b, acc)
  ELSE [found |-> acc, throws |-> FALSE, canEnd |-> CallbackStops(c, n)]

\* what read / count of createJsonlFile return
LibResult(c, n) == IF c.op = "lib.count" THEN OkValue(n) ELSE Ok

\* what the caller's onLine does at its n-th invocation: at the stopAt-th it
\* returns true, returns another truthy value, or throws; otherwise it
\* returns nothing
OnLineSignals == {"true", "truthy", "throw"}
OnLine(c, n) == IF c.stopAt = n THEN c.signal ELSE "undefined"

\* readLineByLine: `if (result === true) break`
LineBreaks(out) == out = "true"

\* isEmptyFile of createJsonlFile: absent, zero bytes, or no non-blank line
LibIsEmptyFile(f) ==
  IF ~SafePathExists(f) THEN TRUE
  ELSE IF f.data = << >> THEN TRUE
  ELSE \A i \in 1..Len(ReadLines(f.data)) : IsBlank(ReadLines(f.data)[i])

\* isEmptyFile of createJsonlFile leaves its loop by break on the first
\* line that is not blank
LibIsEmptyFileBreaks(f) == ~LibIsEmptyFile(f)

FirstNonBlank(f) ==
  CHOOSE i \in 1..Len(ReadLines(f.data)) :
    /\ ~IsBlank(ReadLines(f.data)[i])
    /\ \A j \in 1..(i - 1) : IsBlank(ReadLines(f.data)[j])

\* history only: nothing of the program reads last or follows
NoLast == [op |-> "none", matchFn |-> "", attr |-> "", value |-> ""]

\* what the caller remembers of a settled call when it issues the next one
LastOf(c) ==
  IF c.op \in AddOps THEN [NoLast EXCEPT !.op = "add"]
  ELSE IF c.op = "deleteMatch" THEN [NoLast EXCEPT !.op = "deleteMatch", !.matchFn = c.matchFn]
  ELSE IF c.op = "deleteFile" /\ result.status = "ok"
  THEN [NoLast EXCEPT !.op = "deletedFile"]
  ELSE IF c.op = "deleteWhere" /\ result.status = "ok"
  THEN [NoLast EXCEPT !.op = "deletedWhere", !.attr = c.attr, !.value = c.value]
  ELSE IF c.op = "read" /\ c.stopAt > 0 /\ Len(visited) = c.stopAt
  THEN [NoLast EXCEPT !.op = "stoppedRead"]
  ELSE NoLast

\* what the call follows, for the claims about two calls in a row
Follows(c) ==
  IF c.op = "deleteMatch" /\ last.op = "deleteMatch" /\ last.matchFn = c.matchFn
  THEN "sameDelete"
  ELSE IF c.op = "read" /\ last.op = "stoppedRead" THEN "stoppedRead"
  ELSE IF c.op = "count" /\ last.op = "add" THEN "add"
  ELSE IF c.op = "add" /\ last.op = "deletedFile" THEN "deletedFile"
  ELSE IF /\ c.op = "findWhere" /\ last.op = "deletedWhere"
          /\ last.attr = c.attr /\ last.value = c.value
  THEN "deletedWhere"
  ELSE "none"

Begin(c) ==
  /\ pc = "idle"
  /\ call' = c
  /\ visited' = << >>
  /\ batch' = << >>
  /\ canEndGlobal' = FALSE
  /\ batches' = << >>
  /\ taskErr' = "none"
  /\ threw' = "none"
  /\ prefix' = << >>
  /\ pre' = files["src"]
  /\ follows' = Follows(c)
  /\ last' = NoLast
  /\ UNCHANGED trav

\* ------------------------------------------------------------------ state machine

Init ==
  /\ files = [p \in Paths |-> Absent]
  /\ pc = "idle"
  /\ call = NoCall
  /\ rl = NoRl
  /\ pending = << >>
  /\ prefix = << >>
  /\ visited = << >>
  /\ batch = << >>
  /\ canEndGlobal = FALSE
  /\ batches = << >>
  /\ taskErr = "none"
  /\ threw = "none"
  /\ result = NoResult
  /\ pre = Absent
  /\ log = << >>
  /\ onlyAdds = TRUE
  /\ last = NoLast
  /\ follows = "none"
  /\ found = << >>
  /\ lineCount = 0
  /\ trav = NoTrav

\* the bound on the file's length
Room(n) == CountLines(files["src"]) + n <= MaxLines

\* add(o): validation, then addText
StartAdd(o) ==
  /\ pc = "idle"
  /\ Room(1)
  /\ Begin([NoCall EXCEPT !.op = "add", !.items = <<o>>])
  /\ rl' = NoRl
  /\ IF ~IsSingleJson(o)
     THEN /\ result' = Err("InvalidInput")
          /\ pc' = "done"
          /\ pending' = << >>
     ELSE /\ result' = NoResult
          /\ pc' = "add_ensure"
          /\ pending' = <<Stringify(o.v)>>
  /\ UNCHANGED <<files, log, onlyAdds, found, lineCount>>

\* addMany(os): validation, the empty array, then addManyText
StartAddMany(isArray, os) ==
  /\ pc = "idle"
  /\ Room(Len(os))
  /\ Begin([NoCall EXCEPT !.op = "addMany", !.isArray = isArray, !.items = os])
  /\ rl' = NoRl
  /\ IF ~isArray
     THEN /\ result' = Err("InvalidInput")
          /\ pc' = "done"
          /\ pending' = << >>
     ELSE IF Len(os) = 0
     THEN /\ result' = Ok
          /\ pc' = "done"
          /\ pending' = << >>
     ELSE IF \E i \in 1..Len(os) : ~IsSingleJson(os[i])
     THEN /\ result' = Err("InvalidInput")
          /\ pc' = "done"
          /\ pending' = << >>
     ELSE /\ result' = NoResult
          /\ pc' = "add_ensure"
          /\ pending' = MapStringify(os)
  /\ UNCHANGED <<files, log, onlyAdds, found, lineCount>>

\* ensureFileAndGetPrefix on the file the add writes
AddEnsure ==
  /\ pc = "add_ensure"
  /\ LET t == AddTarget(call.op) IN
       /\ prefix' = GetPrefix(files[t])
       /\ files' = [files EXCEPT ![t] = EnsureFile(files[t])]
       /\ rl' = IF IsEmptyFileBreaks(files[t])
                THEN Abandon(rl, ReadLines(files[t].data), 1) ELSE rl
  /\ pc' = "add_append"
  /\ UNCHANGED <<call, pending, visited, batch, canEndGlobal, batches,
                 taskErr, threw, result, pre, log, onlyAdds, last, follows, found, lineCount, trav>>

RECURSIVE ItemRecords(_)
ItemRecords(items) ==
  IF items = << >> THEN << >> ELSE <<Head(items).v>> \o ItemRecords(Tail(items))

\* appendFile(path, prefix + lines.join("\n")); a top-level add settles,
\* the add of a mutation returns to the traversal
AddAppend ==
  /\ pc = "add_append"
  /\ LET t == AddTarget(call.op) IN
       files' = [files EXCEPT ![t] = AppendFile(files[t], prefix \o JoinLines(pending))]
  /\ pending' = << >>
  /\ prefix' = << >>
  /\ IF call.op \in AddOps
     THEN /\ pc' = "done"
          /\ result' = Ok
          /\ log' = IF onlyAdds THEN log \o ItemRecords(call.items) ELSE log
          /\ rl' = rl
     ELSE /\ pc' = "mut_loop"
          /\ result' = result
          /\ log' = log
          /\ rl' = [rl EXCEPT !.pos = @ + 1]
  /\ UNCHANGED <<call, visited, batch, canEndGlobal, batches, taskErr, threw,
                 pre, onlyAdds, last, follows, found, lineCount, trav>>

\* count(): one pass over the lines
Count ==
  /\ Begin([NoCall EXCEPT !.op = "count"])
  /\ rl' = NoRl
  /\ result' = IF GetRl("src").err THEN Err("ENOENT")
               ELSE OkValue(CountLines(files["src"]))
  /\ pc' = "done"
  /\ files' = OpenRead(files, "src")
  /\ UNCHANGED <<pending, log, onlyAdds, found, lineCount>>

\* faulty variant: rm with the force option
RmForce(f) == FALSE

\* rm(path) without the force option rejects when nothing is at the path
RmRejects(f) == ~f.exists

\* deleteFile(): rm(path)
DeleteFile ==
  /\ Begin([NoCall EXCEPT !.op = "deleteFile"])
  /\ rl' = NoRl
  /\ pc' = "done"
  /\ IF ~RmRejects(files["src"])
     THEN /\ files' = [files EXCEPT !["src"] = Absent]
          /\ result' = Ok
          /\ log' = << >>
          /\ onlyAdds' = TRUE
     ELSE /\ result' = Err("ENOENT")
          /\ UNCHANGED <<files, log, onlyAdds>>
  /\ UNCHANGED <<pending, found, lineCount>>

\* first(): the first line readline yields, parsed
First(impl) ==
  /\ Begin([NoCall EXCEPT !.op = "first", !.impl = impl])
  /\ rl' = IF Len(GetRl("src").lines) > 0
           THEN Abandon(NoRl, GetRl("src").lines, 1) ELSE NoRl
  /\ pc' = "done"
  /\ LET r == GetRl("src")
          out == ParseFound(impl, FirstLine(r.lines))
     IN IF r.err
        THEN result' = Err("ENOENT") /\ found' = << >>
        ELSE result' = out.res /\ found' = out.found
  /\ files' = OpenRead(files, "src")
  /\ UNCHANGED <<pending, log, onlyAdds, lineCount>>

\* last(): the last line readline yields, parsed
Last(impl) ==
  /\ Begin([NoCall EXCEPT !.op = "last", !.impl = impl])
  /\ rl' = NoRl
  /\ pc' = "done"
  /\ LET r == GetRl("src")
          out == ParseFound(impl, LastLine(r.lines))
     IN IF r.err
        THEN result' = Err("ENOENT") /\ found' = << >>
        ELSE result' = out.res /\ found' = out.found
  /\ files' = OpenRead(files, "src")
  /\ UNCHANGED <<pending, log, onlyAdds, lineCount>>

Settle(res) ==
  /\ pc' = "done"
  /\ result' = res

\* the caller's await resumes: the call's locals are gone, the file stays
\* (the interface of a finished read is closed and unreachable; it is kept
\* where it stopped so that a later call depending on it would show)
Return ==
  /\ pc = "done"
  /\ pc' = "idle"
  /\ last' = LastOf(call)
  /\ call' = NoCall
  /\ rl' = IF call.op = "read" THEN rl ELSE NoRl
  /\ visited' = << >>
  /\ batch' = << >>
  /\ canEndGlobal' = FALSE
  /\ batches' = << >>
  /\ taskErr' = "none"
  /\ threw' = "none"
  /\ result' = NoResult
  /\ pre' = Absent
  /\ follows' = "none"
  /\ found' = << >>
  /\ lineCount' = 0
  /\ UNCHANGED <<files, pending, prefix, log, onlyAdds, trav>>

\* read(onLine)
StartRead(stopAt) ==
  /\ Begin([NoCall EXCEPT !.op = "read", !.stopAt = stopAt])
  /\ rl' = GetRl("src")
  /\ pc' = "read"
  /\ result' = NoResult
  /\ files' = OpenRead(files, "src")
  /\ UNCHANGED <<pending, log, onlyAdds, found, lineCount>>

ReadStep ==
  /\ pc = "read"
  /\ IF rl.err THEN Settle(Err("ENOENT")) /\ UNCHANGED <<rl, visited>>
     ELSE IF rl.pos >= Len(rl.lines) THEN Settle(Ok) /\ UNCHANGED <<rl, visited>>
     ELSE LET line == rl.lines[rl.pos + 1] IN
       IF ~ParseOk(line)
       THEN Settle(Err("SyntaxError")) /\ rl' = Abandon(rl, rl.lines, rl.pos + 1) /\ UNCHANGED visited
       ELSE /\ visited' = Append(visited, Parse(line))
            /\ IF ReadBreaks(CallbackStops(call, Len(visited) + 1))
               THEN Settle(Ok) /\ rl' = Abandon([rl EXCEPT !.pos = @ + 1], rl.lines, rl.pos + 1)
               ELSE rl' = [rl EXCEPT !.pos = @ + 1] /\ UNCHANGED <<pc, result>>
  /\ UNCHANGED <<files, call, pending, prefix, batch, canEndGlobal, batches,
                 taskErr, threw, pre, log, onlyAdds, last, follows, found, lineCount, trav>>

\* findWhere / findMatch / countMatch: this.read with the call's callback
StartScan(c) ==
  /\ Begin(c)
  /\ rl' = GetRl("src")
  /\ pc' = "scan"
  /\ result' = NoResult
  /\ files' = OpenRead(files, "src")
  /\ UNCHANGED <<pending, log, onlyAdds, found, lineCount>>

StartFindWhere(q) ==
  StartScan([NoCall EXCEPT !.op = "findWhere", !.attr = q.attr, !.value = q.value])

StartFindMatch(p) == StartScan([NoCall EXCEPT !.op = "findMatch", !.matchFn = p])

StartCountMatch(p) == StartScan([NoCall EXCEPT !.op = "countMatch", !.matchFn = p])

\* what the call returns once this.read has resolved
ScanResult(c, n) == IF c.op = "countMatch" THEN OkValue(n) ELSE Ok

\* one turn of this.read: the callback on the next line
ScanStep ==
  /\ pc = "scan"
  /\ IF rl.err
     THEN Settle(Err("ENOENT")) /\ UNCHANGED <<rl, visited, found, lineCount>>
     ELSE IF rl.pos >= Len(rl.lines)
     THEN Settle(ScanResult(call, lineCount)) /\ UNCHANGED <<rl, visited, found, lineCount>>
     ELSE LET line == rl.lines[rl.pos + 1] IN
       IF ~ParseOk(line)
       THEN /\ Settle(Err("SyntaxError"))
            /\ rl' = Abandon(rl, rl.lines, rl.pos + 1)
            /\ UNCHANGED <<visited, found, lineCount>>
       ELSE LET r == Parse(line)
                out == ScanCallback(call, r)
                n == IF out.inc THEN lineCount + 1 ELSE lineCount
                next == [rl EXCEPT !.pos = @ + 1]
            IN /\ visited' = Append(visited, r)
               /\ IF out.throws
                  THEN /\ Settle(Err("CallbackError"))
                       /\ rl' = Abandon(next, rl.lines, rl.pos + 1)
                       /\ UNCHANGED <<found, lineCount>>
                  ELSE /\ found' = IF ~out.keep THEN found
                                   ELSE IF call.op = "findWhere" THEN <<r>>
                                   ELSE Append(found, r)
                       /\ lineCount' = n
                       /\ IF ReadBreaks(out.canEnd)
                          THEN Settle(ScanResult(call, n)) /\ rl' = Abandon(next, rl.lines, rl.pos + 1)
                          ELSE rl' = next /\ UNCHANGED <<pc, result>>
  /\ UNCHANGED <<files, call, pending, prefix, batch, canEndGlobal, batches,
                 taskErr, threw, pre, log, onlyAdds, last, follows, trav>>

\* readByBatch(onBatch, batchSize)
StartReadByBatch(stopAt, k) ==
  /\ Begin([NoCall EXCEPT !.op = "readByBatch", !.stopAt = stopAt, !.batchSize = k])
  /\ rl' = GetRl("src")
  /\ pc' = "batch"
  /\ result' = NoResult
  /\ files' = OpenRead(files, "src")
  /\ UNCHANGED <<pending, log, onlyAdds, found, lineCount>>

BatchStep ==
  /\ pc = "batch"
  /\ IF rl.err
     THEN Settle(Err("ENOENT")) /\ UNCHANGED <<rl, batch, batches, canEndGlobal>>
     ELSE IF rl.pos >= Len(rl.lines)
     THEN pc' = "flush" /\ UNCHANGED <<rl, batch, batches, canEndGlobal, result>>
     ELSE LET line == rl.lines[rl.pos + 1] IN
       IF ~ParseOk(line)
       THEN /\ Settle(Err("SyntaxError"))
            /\ rl' = Abandon(rl, rl.lines, rl.pos + 1)
            /\ UNCHANGED <<batch, batches, canEndGlobal>>
       ELSE LET b == Append(batch, Parse(line))
                next == [rl EXCEPT !.pos = @ + 1]
            IN
         /\ result' = result
         /\ IF Len(b) = call.batchSize
            THEN /\ batches' = Append(batches, b)
                 /\ IF CallbackStops(call, Len(batches) + 1)
                    THEN /\ canEndGlobal' = TRUE /\ batch' = b /\ pc' = "flush"
                         /\ rl' = Abandon(next, rl.lines, rl.pos + 1)
                    ELSE /\ canEndGlobal' = canEndGlobal /\ batch' = << >> /\ pc' = pc
                         /\ rl' = next
            ELSE /\ batch' = b
                 /\ rl' = next
                 /\ UNCHANGED <<batches, canEndGlobal, pc>>
  /\ UNCHANGED <<files, call, pending, prefix, visited, taskErr, threw, pre,
                 log, onlyAdds, last, follows, found, lineCount, trav>>

BatchFlush ==
  /\ pc = "flush"
  /\ batches' = IF ShouldFlush(batch, canEndGlobal) THEN Append(batches, batch) ELSE batches
  /\ Settle(Ok)
  /\ UNCHANGED <<files, call, rl, pending, prefix, visited, batch, canEndGlobal,
                 taskErr, threw, pre, log, onlyAdds, last, follows, found, lineCount, trav>>

\* createJsonlFile.read(onBatch, batchSize): nothing to read when the file
\* does not exist; blank and unparsable lines are skipped
StartLibRead(stopAt, k) ==
  /\ Begin([NoCall EXCEPT !.op = "lib.read", !.stopAt = stopAt, !.batchSize = k])
  /\ IF ~SafePathExists(files["src"])
     THEN rl' = NoRl /\ Settle(Ok)
     ELSE rl' = GetRl("src") /\ pc' = "lib_batch" /\ result' = NoResult
  /\ files' = IF ~SafePathExists(files["src"]) THEN files ELSE OpenRead(files, "src")
  /\ UNCHANGED <<pending, log, onlyAdds, found, lineCount>>

LibBatchStep ==
  /\ pc = "lib_batch"
  /\ IF rl.err
     THEN /\ Settle(Err("ENOENT"))
          /\ UNCHANGED <<rl, batch, batches, canEndGlobal, lineCount, found>>
     ELSE IF rl.pos >= Len(rl.lines)
     THEN /\ pc' = "lib_flush"
          /\ UNCHANGED <<rl, batch, batches, canEndGlobal, result, lineCount, found>>
     ELSE LET line == rl.lines[rl.pos + 1] IN
       IF LibSkips(line)
       THEN /\ rl' = [rl EXCEPT !.pos = @ + 1]
            /\ UNCHANGED <<batch, batches, canEndGlobal, pc, result, lineCount, found>>
       ELSE LET b == Append(batch, Parse(line))
                next == [rl EXCEPT !.pos = @ + 1]
            IN
         /\ IF Len(b) = call.batchSize
            THEN LET out == OnBatch(call, Len(batches) + 1, b, found) IN
                 /\ batches' = Append(batches, b)
                 /\ lineCount' = OnBatchCount(call, lineCount, b)
                 /\ found' = out.found
                 /\ IF out.throws
                    THEN /\ Settle(Err("CallbackError"))
                         /\ canEndGlobal' = canEndGlobal
                         /\ batch' = b
                         /\ rl' = Abandon(next, rl.lines, rl.pos + 1)
                    ELSE IF out.canEnd
                    THEN /\ canEndGlobal' = TRUE
                         /\ batch' = b
                         /\ pc' = "lib_flush"
                         /\ result' = result
                         /\ rl' = Abandon(next, rl.lines, rl.pos + 1)
                    ELSE /\ canEndGlobal' = canEndGlobal
                         /\ batch' = << >>
                         /\ rl' = next
                         /\ UNCHANGED <<pc, result>>
            ELSE /\ batch' = b
                 /\ rl' = next
                 /\ UNCHANGED <<batches, canEndGlobal, pc, result, lineCount, found>>
  /\ UNCHANGED <<files, call, pending, prefix, visited, taskErr, threw, pre,
                 log, onlyAdds, last, follows, trav>>

RECURSIVE StringifyAll(_)
StringifyAll(rs) ==
  IF rs = << >> THEN << >> ELSE <<Stringify(Head(rs))>> \o StringifyAll(Tail(rs))

\* faulty variant: update and delete of the facade write what they
\* collected back to the file
DirWritesBack(c, f, out) ==
  IF c.op \in {"dir.update", "dir.delete"}
  THEN [exists |-> TRUE, data |-> JoinLines(StringifyAll(out))]
  ELSE f

\* what the facade's call leaves in the file once jsonlFile.read has
\* resolved: update and delete only return the array they collected
DirPersists(c, f, out) == f

\* after the loop: the final flush, then the call returns
LibFlush ==
  /\ pc = "lib_flush"
  /\ IF LibShouldFlush(batch, canEndGlobal)
     THEN LET out == OnBatch(call, Len(batches) + 1, batch, found) IN
          /\ batches' = Append(batches, batch)
          /\ lineCount' = OnBatchCount(call, lineCount, batch)
          /\ found' = out.found
          /\ Settle(IF out.throws THEN Err("CallbackError")
                    ELSE LibResult(call, lineCount'))
     ELSE /\ Settle(LibResult(call, lineCount))
          /\ UNCHANGED <<batches, lineCount, found>>
  /\ files' = [files EXCEPT !["src"] = DirPersists(call, files["src"], found')]
  /\ UNCHANGED <<call, rl, pending, prefix, visited, batch, canEndGlobal,
                 taskErr, threw, pre, log, onlyAdds, last, follows, trav>>

\* find / findOne / update / delete of the facade: jsonlFile.read(onBatch)
\* with the default batch size.  The model runs them with that size and
\* with one scaled down to SmallBatch, for which a file of a few records is
\* larger than a batch.
DirBatchSizes == {DefaultBatchSize, SmallBatch}

StartDir(c) ==
  /\ Begin(c)
  /\ IF ~SafePathExists(files["src"])
     THEN rl' = NoRl /\ Settle(Ok)
     ELSE rl' = GetRl("src") /\ pc' = "lib_batch" /\ result' = NoResult
  /\ files' = IF ~SafePathExists(files["src"]) THEN files ELSE OpenRead(files, "src")
  /\ UNCHANGED <<pending, log, onlyAdds, found, lineCount>>

StartDirFind(p, k) ==
  StartDir([NoCall EXCEPT !.op = "dir.find", !.matchFn = p, !.batchSize = k])

StartDirFindOne(p, k) ==
  StartDir([NoCall EXCEPT !.op = "dir.findOne", !.matchFn = p, !.batchSize = k])

StartDirUpdate(p, f, k) ==
  StartDir([NoCall EXCEPT !.op = "dir.update", !.matchFn = p, !.updateFn = f,
                          !.batchSize = k])

StartDirDelete(p, k) ==
  StartDir([NoCall EXCEPT !.op = "dir.delete", !.matchFn = p, !.batchSize = k])

\* createJsonlFile.count(): 0 when the file does not exist, else one read
\* with the default batch size
StartLibCount ==
  /\ Begin([NoCall EXCEPT !.op = "lib.count", !.batchSize = DefaultBatchSize])
  /\ IF ~SafePathExists(files["src"])
     THEN rl' = NoRl /\ Settle(OkValue(0))
     ELSE rl' = GetRl("src") /\ pc' = "lib_batch" /\ result' = NoResult
  /\ files' = IF ~SafePathExists(files["src"]) THEN files ELSE OpenRead(files, "src")
  /\ UNCHANGED <<pending, log, onlyAdds, found, lineCount>>

\* createJsonlFile.readLineByLine(onLine)
StartLibReadLineByLine(stopAt, signal) ==
  /\ Begin([NoCall EXCEPT !.op = "lib.readLineByLine", !.stopAt = stopAt,
                          !.signal = signal])
  /\ IF ~SafePathExists(files["src"])
     THEN rl' = NoRl /\ Settle(Ok)
     ELSE rl' = GetRl("src") /\ pc' = "lib_line" /\ result' = NoResult
  /\ files' = IF ~SafePathExists(files["src"]) THEN files ELSE OpenRead(files, "src")
  /\ UNCHANGED <<pending, log, onlyAdds, found, lineCount>>

\* one turn of readLineByLine's loop: blank lines are skipped; the try block
\* holds JSON.parse and the call of onLine, its catch warns and continues
LibLineStep ==
  /\ pc = "lib_line"
  /\ IF rl.err
     THEN Settle(Err("ENOENT")) /\ UNCHANGED <<rl, visited>>
     ELSE IF rl.pos >= Len(rl.lines)
     THEN Settle(Ok) /\ UNCHANGED <<rl, visited>>
     ELSE LET line == rl.lines[rl.pos + 1] IN
       IF LibSkips(line)
       THEN rl' = [rl EXCEPT !.pos = @ + 1] /\ UNCHANGED <<visited, pc, result>>
       ELSE /\ visited' = Append(visited, Parse(line))
            /\ IF LineBreaks(OnLine(call, Len(visited) + 1))
               THEN Settle(Ok) /\ rl' = Abandon([rl EXCEPT !.pos = @ + 1], rl.lines, rl.pos + 1)
               ELSE rl' = [rl EXCEPT !.pos = @ + 1] /\ UNCHANGED <<pc, result>>
  /\ UNCHANGED <<files, call, pending, prefix, batch, canEndGlobal, batches,
                 taskErr, threw, pre, log, onlyAdds, last, follows, found,
                 lineCount, trav>>

\* createJsonlFile.isEmpty()
LibIsEmpty ==
  /\ Begin([NoCall EXCEPT !.op = "lib.isEmpty"])
  /\ rl' = IF LibIsEmptyFileBreaks(files["src"])
           THEN Abandon(NoRl, ReadLines(files["src"].data), FirstNonBlank(files["src"]))
           ELSE NoRl
  /\ Settle(OkFlag(LibIsEmptyFile(files["src"])))
  /\ files' = IF ~SafePathExists(files["src"]) \/ files["src"].data = << >>
             THEN files ELSE OpenRead(files, "src")
  /\ UNCHANGED <<pending, log, onlyAdds, found, lineCount>>

\* createJsonlFile.exists()
LibExists ==
  /\ Begin([NoCall EXCEPT !.op = "lib.exists"])
  /\ rl' = NoRl
  /\ Settle(OkFlag(SafePathExists(files["src"])))
  /\ UNCHANGED <<files, pending, log, onlyAdds, found, lineCount>>

\* updateWhere / updateMatch / deleteWhere / deleteMatch: temporaryFileTask
\* hands out a scratch path and the traversal of the source starts
StartMutation(c) ==
  /\ Begin(c)
  /\ rl' = GetRl("src")
  /\ pc' = "mut_loop"
  /\ result' = NoResult
  /\ log' = << >>
  /\ onlyAdds' = FALSE
  /\ files' = OpenRead(files, "src")
  /\ UNCHANGED <<pending, found, lineCount>>

StartUpdateWhere(q, f) ==
  StartMutation([NoCall EXCEPT !.op = "updateWhere", !.attr = q.attr,
                               !.value = q.value, !.updateFn = f])

StartUpdateMatch(p, f) ==
  StartMutation([NoCall EXCEPT !.op = "updateMatch", !.matchFn = p, !.updateFn = f])

StartDeleteWhere(q) ==
  StartMutation([NoCall EXCEPT !.op = "deleteWhere", !.attr = q.attr, !.value = q.value])

StartDeleteMatch(p) ==
  StartMutation([NoCall EXCEPT !.op = "deleteMatch", !.matchFn = p])

\* one turn of this.read inside the task: the callback on the next line
MutLoop ==
  /\ pc = "mut_loop"
  /\ IF rl.err
     THEN /\ taskErr' = "ENOENT"
          /\ pc' = "cleanup"
          /\ UNCHANGED <<rl, pending, threw, found>>
     ELSE IF rl.pos >= Len(rl.lines)
     THEN /\ pc' = "rename"
          /\ UNCHANGED <<rl, pending, threw, taskErr, found>>
     ELSE LET out == LineOutcome(call, rl.lines[rl.pos + 1]) IN
       /\ found' = IF Invokes(call, rl.lines[rl.pos + 1])
                   THEN Append(found, Parse(rl.lines[rl.pos + 1]))
                   ELSE found
       /\ CASE out.kind = "fail" ->
                 /\ taskErr' = out.err
                 /\ threw' = IF out.err = "SyntaxError" THEN threw ELSE out.err
                 /\ pc' = "cleanup"
                 /\ rl' = Abandon(rl, rl.lines, rl.pos + 1)
                 /\ UNCHANGED pending
            [] out.kind = "skip" ->
                 /\ rl' = [rl EXCEPT !.pos = @ + 1]
                 /\ UNCHANGED <<pc, pending, threw, taskErr>>
            [] OTHER ->
                 /\ pending' = <<Stringify(out.v)>>
                 /\ pc' = "add_ensure"
                 /\ UNCHANGED <<rl, threw, taskErr>>
  /\ UNCHANGED <<files, call, prefix, visited, batch, canEndGlobal, batches,
                 result, pre, log, onlyAdds, last, follows, lineCount, trav>>

\* rename(tmpPath, path): the commit; it fails when nothing was written
Rename ==
  /\ pc = "rename"
  /\ IF SafePathExists(files["tmp"])
     THEN files' = RenameFiles(files) /\ taskErr' = taskErr
     ELSE files' = files /\ taskErr' = "ENOENT"
  /\ pc' = "cleanup"
  /\ UNCHANGED <<call, rl, pending, prefix, visited, batch, canEndGlobal, batches,
                 threw, result, pre, log, onlyAdds, last, follows, found, lineCount, trav>>

\* the helper's finally: unlink the scratch path, then settle as the task did
Cleanup ==
  /\ pc = "cleanup"
  /\ files' = Unlink(files)
  /\ Settle(TemporaryFileTaskResult(taskErr))
  /\ rl' = [NoRl EXCEPT !.unclosed = rl.unclosed]
  /\ UNCHANGED <<call, pending, prefix, visited, batch, canEndGlobal, batches,
                 taskErr, threw, pre, log, onlyAdds, last, follows, found, lineCount, trav>>

RECURSIVE SeqsUpTo(_, _)
SeqsUpTo(S, n) ==
  IF n = 0 THEN {<< >>}
  ELSE LET shorter == SeqsUpTo(S, n - 1) IN
       shorter \cup {Append(s, x) : s \in shorter, x \in S}

Arrays == SeqsUpTo(ArrayItems, MaxArr)
StopPoints == 0..MaxLines
BatchStops == 0..2
BatchSizes == 0..MaxBatchSize

Next ==
  \/ \E o \in Values : StartAdd(o)
  \/ \E os \in Arrays : StartAddMany(TRUE, os)
  \/ StartAddMany(FALSE, << >>)
  \/ AddEnsure
  \/ AddAppend
  \/ Count
  \/ DeleteFile
  \/ \E impl \in Impls : First(impl)
  \/ \E impl \in Impls : Last(impl)
  \/ \E n \in StopPoints : StartRead(n)
  \/ ReadStep
  \/ \E q \in WhereQueries : StartFindWhere(q)
  \/ \E p \in MatchFns : StartFindMatch(p)
  \/ \E p \in MatchFns : StartCountMatch(p)
  \/ ScanStep
  \/ \E n \in BatchStops, k \in BatchSizes : StartReadByBatch(n, k)
  \/ BatchStep
  \/ BatchFlush
  \/ \E n \in BatchStops, k \in BatchSizes : StartLibRead(n, k)
  \/ LibBatchStep
  \/ LibFlush
  \/ StartLibCount
  \/ \E n \in StopPoints, sig \in OnLineSignals : StartLibReadLineByLine(n, sig)
  \/ LibLineStep
  \/ LibIsEmpty
  \/ LibExists
  \/ \E q \in WhereQueries, f \in UpdateFns : StartUpdateWhere(q, f)
  \/ \E p \in MatchFns, f \in UpdateFns : StartUpdateMatch(p, f)
  \/ \E q \in WhereQueries : StartDeleteWhere(q)
  \/ \E p \in MatchFns : StartDeleteMatch(p)
  \/ MutLoop
  \/ Rename
  \/ Cleanup
  \/ Return

Spec == Init /\ [][Next]_vars

\* ------------------------------------------------------------------ any file
\* The engines open whatever file is at the path: files other programs
\* wrote, with blank lines and lines that are not JSON.  The reading
\* operations of both engines on every such file of up to MaxChunks chunks.

ForeignChunks == {NL, Junk, Stringify([name |-> "Alice", age |-> "25"]),
                  Stringify([name |-> "Bob", age |-> "30"])}

\* text without a newline in between is one chunk
WellChunked(d) == \A i \in 1..(Len(d) - 1) : d[i].t = "nl" \/ d[i + 1].t = "nl"

ForeignFiles ==
  {Absent} \cup {[exists |-> TRUE, data |-> d] :
                   d \in {x \in SeqsUpTo(ForeignChunks, MaxChunks) : WellChunked(x)}}

InitForeign ==
  /\ \E f \in ForeignFiles : files = [p \in Paths |-> IF p = "src" THEN f ELSE Absent]
  /\ pc = "idle"
  /\ call = NoCall
  /\ rl = NoRl
  /\ pending = << >>
  /\ prefix = << >>
  /\ visited = << >>
  /\ batch = << >>
  /\ canEndGlobal = FALSE
  /\ batches = << >>
  /\ taskErr = "none"
  /\ threw = "none"
  /\ result = NoResult
  /\ pre = Absent
  /\ log = << >>
  /\ onlyAdds = FALSE
  /\ last = NoLast
  /\ follows = "none"
  /\ found = << >>
  /\ lineCount = 0
  /\ trav = NoTrav

NextForeign ==
  \/ Count
  \/ \E impl \in Impls : First(impl)
  \/ \E impl \in Impls : Last(impl)
  \/ \E n \in StopPoints : StartRead(n)
  \/ ReadStep
  \/ \E q \in WhereQueries : StartFindWhere(q)
  \/ \E p \in MatchFns : StartFindMatch(p)
  \/ \E p \in MatchFns : StartCountMatch(p)
  \/ ScanStep
  \/ \E n \in BatchStops, k \in BatchSizes : StartReadByBatch(n, k)
  \/ BatchStep
  \/ BatchFlush
  \/ \E n \in BatchStops, k \in BatchSizes : StartLibRead(n, k)
  \/ LibBatchStep
  \/ LibFlush
  \/ StartLibCount
  \/ \E n \in StopPoints, sig \in OnLineSignals : StartLibReadLineByLine(n, sig)
  \/ LibLineStep
  \/ LibIsEmpty
  \/ LibExists
  \/ \E p \in MatchFns, k \in DirBatchSizes : StartDirFind(p, k)
  \/ \E p \in MatchFns, k \in DirBatchSizes : StartDirFindOne(p, k)
  \/ \E p \in MatchFns, f \in UpdateFns, k \in DirBatchSizes : StartDirUpdate(p, f, k)
  \/ \E p \in MatchFns, k \in DirBatchSizes : StartDirDelete(p, k)
  \/ Return

SpecForeign == InitForeign /\ [][NextForeign]_vars

\* ------------------------------------------------------------------ the facade
\* jsonlDir(dir).file(name): add goes to createJsonlFile.appendText.  A value
\* that is not a plain object is stringified like any other: its line is
\* JSON text, and what JSON.parse gives back for it has none of the fields
\* of a record.

\* the facade's add accepts every array, and a single value that is a plain
\* object
DirAddAccepts(isArray, items) == isArray \/ IsSingleJson(items[1])

\* add(data) of the facade, up to the call of appendText, which returns at
\* once on no lines
StartDirAdd(isArray, items) ==
  /\ pc = "idle"
  /\ Room(Len(items))
  /\ Begin([NoCall EXCEPT !.op = "dir.add", !.isArray = isArray, !.items = items])
  /\ rl' = NoRl
  /\ IF isArray /\ Len(items) = 0
     THEN /\ result' = Ok
          /\ pc' = "done"
          /\ pending' = << >>
     ELSE IF ~DirAddAccepts(isArray, items)
     THEN /\ result' = Err("InvalidInput")
          /\ pc' = "done"
          /\ pending' = << >>
     ELSE /\ result' = NoResult
          /\ pc' = "lib_ensure"
          /\ pending' = MapStringify(items)
  /\ UNCHANGED <<files, log, onlyAdds, found, lineCount>>

\* faulty variant: appendText goes on with no lines
AppendTextAlwaysWrites(lines) == FALSE

\* appendText: `if (lines.length === 0) return`
AppendTextReturnsAtOnce(lines) == Len(lines) = 0

\* createJsonlFile.appendText(lines), called directly with the JSON texts of
\* the items
StartLibAppendText(items) ==
  /\ pc = "idle"
  /\ Room(Len(items))
  /\ Begin([NoCall EXCEPT !.op = "lib.appendText", !.isArray = TRUE, !.items = items])
  /\ rl' = NoRl
  /\ pending' = MapStringify(items)
  /\ IF AppendTextReturnsAtOnce(MapStringify(items))
     THEN result' = Ok /\ pc' = "done"
     ELSE result' = NoResult /\ pc' = "lib_ensure"
  /\ UNCHANGED <<files, log, onlyAdds, found, lineCount>>

\* the prefix ensure() returns
LibGetPrefix(f) ==
  IF ~SafePathExists(f) THEN << >>
  ELSE IF LibIsEmptyFile(f) THEN << >> ELSE <<NL>>

\* appendText: ensure()
LibEnsure ==
  /\ pc = "lib_ensure"
  /\ prefix' = LibGetPrefix(files["src"])
  /\ files' = [files EXCEPT !["src"] = EnsureFile(@)]
  /\ rl' = IF LibIsEmptyFileBreaks(files["src"])
           THEN Abandon(rl, ReadLines(files["src"].data), FirstNonBlank(files["src"]))
           ELSE rl
  /\ pc' = "lib_append"
  /\ UNCHANGED <<call, pending, visited, batch, canEndGlobal, batches,
                 taskErr, threw, result, pre, log, onlyAdds, last, follows,
                 found, lineCount, trav>>

\* appendText: fs.appendFile(filePath, linePrefix + lines.join("\n"))
LibAppend ==
  /\ pc = "lib_append"
  /\ files' = [files EXCEPT !["src"] = AppendFile(@, prefix \o JoinLines(pending))]
  /\ pending' = << >>
  /\ prefix' = << >>
  /\ Settle(Ok)
  /\ UNCHANGED <<call, rl, visited, batch, canEndGlobal, batches, taskErr, threw,
                 pre, log, onlyAdds, last, follows, found, lineCount, trav>>

\* the adds of both engines on one path, and the facade's count
NextDir ==
  \/ \E o \in Values : StartDirAdd(FALSE, <<o>>)
  \/ \E os \in Arrays : StartDirAdd(TRUE, os)
  \/ \E os \in Arrays : StartLibAppendText(os)
  \/ LibEnsure
  \/ LibAppend
  \/ \E o \in Values : StartAdd(o)
  \/ \E os \in Arrays : StartAddMany(TRUE, os)
  \/ StartAddMany(FALSE, << >>)
  \/ AddEnsure
  \/ AddAppend
  \/ StartLibCount
  \/ LibBatchStep
  \/ LibFlush
  \/ Return

SpecDir == Init /\ [][NextDir]_vars

\* the appends of both engines, and isEmpty, on any file
NextAppend ==
  \/ \E o \in ArrayItems : StartAdd(o)
  \/ AddEnsure
  \/ AddAppend
  \/ \E os \in Arrays : StartLibAppendText(os)
  \/ LibEnsure
  \/ LibAppend
  \/ LibIsEmpty
  \/ Return

SpecAppend == InitForeign /\ [][NextAppend]_vars

\* ------------------------------------------------------------------ access errors

\* the errors of fs.access other than ENOENT: the lookup of the path is
\* refused, whatever is at the path
AccessErrors == {"EACCES", "EPERM"}

\* fs.access(path) for the call: the error its environment raises, if any,
\* else by what is at the path
Access(c, f) ==
  IF c.access # "" THEN c.access ELSE IF f.exists THEN "ok" ELSE "ENOENT"

\* faulty variant: every error is taken for a missing path
SafePathExistsSwallows(a) == [throws |-> FALSE, err |-> "none", value |-> a = "ok"]

\* safePathExists: true, false on ENOENT, any other error thrown again
SafePathExistsOutcome(a) ==
  IF a = "ok" THEN [throws |-> FALSE, err |-> "none", value |-> TRUE]
  ELSE IF a = "ENOENT" THEN [throws |-> FALSE, err |-> "none", value |-> FALSE]
  ELSE [throws |-> TRUE, err |-> a, value |-> FALSE]

\* the operations that begin with safePathExists(path)
CheckingOps == {"add", "lib.appendText", "lib.read", "lib.readLineByLine",
                "lib.count", "lib.isEmpty", "lib.exists"}

\* what such an operation does when the check answers false
OnMissingPath(op) ==
  CASE op = "lib.count" -> OkValue(0)
    [] op = "lib.isEmpty" -> OkFlag(TRUE)
    [] op = "lib.exists" -> OkFlag(FALSE)
    [] OTHER -> Ok

\* an operation whose fs.access fails with e: the check throws and the
\* operation rejects before its next statement; were the check to answer
\* false, an append would create the file and write, a read would return
StartDenied(op, e, o) ==
  /\ pc = "idle"
  /\ Begin([NoCall EXCEPT !.op = op, !.access = e,
                          !.isArray = (op = "lib.appendText"),
                          !.items = IF op \in {"add", "lib.appendText"} THEN <<o>>
                                    ELSE << >>])
  /\ rl' = NoRl
  /\ pending' = << >>
  /\ LET out == SafePathExistsOutcome(Access(call', files["src"])) IN
       IF out.throws
       THEN Settle(Err(out.err)) /\ UNCHANGED files
       ELSE /\ Settle(OnMissingPath(op))
            /\ files' = IF op \in {"add", "lib.appendText"}
                        THEN [files EXCEPT !["src"] =
                                AppendFile([exists |-> TRUE, data |-> << >>],
                                           <<Stringify(o.v)>>)]
                        ELSE files
  /\ UNCHANGED <<log, onlyAdds, found, lineCount>>

\* every operation that makes the check, on any file, with the lookup
\* refused; exists() also with the lookup answered
NextAccess ==
  \/ \E op \in CheckingOps, e \in AccessErrors, o \in {Obj([name |-> "Alice", age |-> "25"])} : StartDenied(op, e, o)
  \/ LibExists
  \/ Return

SpecAccess == InitForeign /\ [][NextAccess]_vars

\* ------------------------------------------------------------------ two callers
\* A second caller traverses the file (read, findMatch, count) while the
\* first one mutates it.  The traversal's stream opens the path once and
\* then reads from the file it opened, whatever the path names later.

TravOps == {"read", "findMatch", "count"}

mainVars == <<files, pc, call, rl, pending, prefix, visited, batch, canEndGlobal,
              batches, taskErr, threw, result, pre, log, onlyAdds, last, follows,
              found, lineCount>>

\* the second caller calls read / findMatch / count: getRl() returns the
\* interface, the stream has not opened the file yet
TravStart(op) ==
  /\ trav.pc = "idle"
  /\ files["src"].exists
  /\ trav' = [NoTrav EXCEPT !.pc = "open", !.op = op]
  /\ UNCHANGED mainVars

\* faulty variant: the stream looks the path up again at every read
StreamReadsPath(t, fs) ==
  IF fs["src"].exists THEN ReadLines(fs["src"].data) ELSE << >>

\* the lines the stream yields: those of the file it opened
StreamLines(t, fs) == t.lines

\* history only: the path still names the file the stream opened
PathNamesOpened(t, fs) == fs["src"].exists /\ ReadLines(fs["src"].data) = t.lines

\* the stream opens the path: the file now at the path is the one it reads
TravOpen ==
  /\ trav.pc = "open"
  /\ trav' = IF files["src"].exists
             THEN [trav EXCEPT !.pc = "reading", !.lines = ReadLines(files["src"].data)]
             ELSE [trav EXCEPT !.pc = "done", !.err = "ENOENT"]
  /\ UNCHANGED mainVars

\* one turn of the traversal's loop: read and findMatch parse the line,
\* count only counts it
TravStep ==
  /\ trav.pc = "reading"
  /\ LET lines == StreamLines(trav, files) IN
       IF trav.pos >= Len(lines)
       THEN trav' = [trav EXCEPT !.pc = "done"]
       ELSE LET line == lines[trav.pos + 1] IN
         IF trav.op # "count" /\ ~ParseOk(line)
         THEN trav' = [trav EXCEPT !.pc = "done", !.err = "SyntaxError"]
         ELSE trav' = [trav EXCEPT !.pos = @ + 1, !.seen = Append(@, line),
                                   !.stale = @ \/ ~PathNamesOpened(trav, files)]
  /\ UNCHANGED mainVars

\* the second caller's await resumes
TravReturn ==
  /\ trav.pc = "done"
  /\ trav' = NoTrav
  /\ UNCHANGED mainVars

ConcObjects == {Obj([name |-> "Alice", age |-> "25"]), Obj([name |-> "Bob", age |-> "30"])}
ConcMatchFns == {"isAlice", "all"}
ConcUpdateFns == {"older", "rename", "throws"}

\* the first caller: adds while no traversal is in flight, one mutation at
\* a time, and its next call once the traversal has returned
NextConc ==
  \/ trav.pc = "idle" /\ \E o \in ConcObjects : StartAdd(o)
  \/ AddEnsure
  \/ AddAppend
  \/ \E q \in WhereQueries, f \in ConcUpdateFns : StartUpdateWhere(q, f)
  \/ \E p \in ConcMatchFns, f \in ConcUpdateFns : StartUpdateMatch(p, f)
  \/ \E q \in WhereQueries : StartDeleteWhere(q)
  \/ \E p \in ConcMatchFns : StartDeleteMatch(p)
  \/ MutLoop
  \/ Rename
  \/ Cleanup
  \/ trav.pc = "idle" /\ Return
  \/ \E op \in TravOps : TravStart(op)
  \/ TravOpen
  \/ TravStep
  \/ TravReturn

SpecConc == Init /\ [][NextConc]_vars

\* ------------------------------------------------------------------ calls not awaited

\* users.add(o) without await, as in the README's Basic Usage: add runs up
\* to its first await and the caller goes on to its next statement.  The
\* add in flight is held in trav: lines is the text it will append, seen
\* the content of the file when it was issued (history only).
UnawaitedAdd(o) ==
  /\ pc = "idle"
  /\ trav.pc = "idle"
  /\ Room(1)
  /\ IsSingleJson(o)
  /\ trav' = [NoTrav EXCEPT !.pc = "add_ensure", !.op = "add",
                            !.lines = <<Stringify(o.v)>>,
                            !.seen = files["src"].data]
  /\ UNCHANGED mainVars

\* ensureFileAndGetPrefix of the add in flight
UnawaitedEnsure ==
  /\ trav.pc = "add_ensure"
  /\ trav' = [trav EXCEPT !.pc = "add_append",
                          !.lines = GetPrefix(files["src"]) \o @]
  /\ files' = [files EXCEPT !["src"] = EnsureFile(files["src"])]
  /\ UNCHANGED <<pc, call, rl, pending, prefix, visited, batch, canEndGlobal,
                 batches, taskErr, threw, result, pre, log, onlyAdds, last, follows,
                 found, lineCount>>

\* appendFile of the add in flight; its promise settles with nobody awaiting
UnawaitedAppend ==
  /\ trav.pc = "add_append"
  /\ trav' = [trav EXCEPT !.pc = "done"]
  /\ files' = [files EXCEPT !["src"] = AppendFile(files["src"], trav.lines)]
  /\ UNCHANGED <<pc, call, rl, pending, prefix, visited, batch, canEndGlobal,
                 batches, taskErr, threw, result, pre, log, onlyAdds, last, follows,
                 found, lineCount>>

\* the settled promise of the add is dropped
UnawaitedDrop ==
  /\ trav.pc = "done"
  /\ trav.op = "add"
  /\ pc \in {"idle", "done"}
  /\ trav' = NoTrav
  /\ UNCHANGED mainVars

UnawaitedUpdateFns == {"older", "rename"}

\* one caller: awaited adds build the file; then add(o) without await,
\* followed at once by updateWhere or deleteWhere on the same file
NextUnawaited ==
  \/ trav.pc = "idle" /\ \E o \in ConcObjects : StartAdd(o)
  \/ AddEnsure
  \/ AddAppend
  \/ \E o \in ConcObjects : UnawaitedAdd(o)
  \/ UnawaitedEnsure
  \/ UnawaitedAppend
  \/ UnawaitedDrop
  \/ \E q \in WhereQueries, f \in UnawaitedUpdateFns : StartUpdateWhere(q, f)
  \/ \E q \in WhereQueries : StartDeleteWhere(q)
  \/ MutLoop
  \/ Rename
  \/ Cleanup
  \/ trav.pc = "idle" /\ Return

SpecUnawaited == Init /\ [][NextUnawaited]_vars

\* ------------------------------------------------------------------ properties

\* the records of a file, line by line (an absent file has none)
RECURSIVE ParseAll(_)
ParseAll(lines) ==
  IF lines = << >> THEN << >>
  ELSE (IF ParseOk(Head(lines)) THEN <<Parse(Head(lines))>> ELSE << >>)
       \o ParseAll(Tail(lines))

DiskRecords(f) == IF f.exists THEN ParseAll(ReadLines(f.data)) ELSE << >>

Settled(ops) == pc = "done" /\ call.op \in ops

InMutation == call.op \in MutationOps /\ pc # "done"

\* the predicate of the call raises on no record of rs
TotalOn(c, rs) == \A i \in 1..Len(rs) : Matches(c, rs[i]) # "throw"

NumMatching(c, rs) == Cardinality({i \in 1..Len(rs) : Matches(c, rs[i]) = "true"})

RECURSIVE Survivors(_, _)
Survivors(c, rs) ==
  IF rs = << >> THEN << >>
  ELSE (IF Matches(c, Head(rs)) = "true" THEN << >> ELSE <<Head(rs)>>)
       \o Survivors(c, Tail(rs))

\* C1: when updateFn or the predicate throws during a mutation, or the
\* scratch add() rejects what updateFn returned, the call rejects with that
\* error and the source file is what it was before the call.
C1_FailedMutationLeavesSource ==
  (Settled(MutationOps) /\ threw # "none")
    => /\ result.status = "error"
       /\ result.err = threw
       /\ files["src"] = pre

\* a callback threw after the first record had been copied to the scratch file
C1_Witness ==
  /\ Settled(MutationOps)
  /\ threw = "CallbackError"
  /\ result.err = "CallbackError"
  /\ Len(DiskRecords(pre)) >= 2
  /\ Matches(call, DiskRecords(pre)[1]) = "false"

\* the text a successful mutation commits: the rewritten records, stringified
\* and joined by single newlines
RECURSIVE Rewritten(_, _)
Rewritten(c, rs) ==
  IF rs = << >> THEN << >>
  ELSE (IF c.op \in DeleteOps
        THEN (IF Matches(c, Head(rs)) = "true" THEN << >> ELSE <<Stringify(Head(rs))>>)
        ELSE (IF Matches(c, Head(rs)) = "true"
              THEN <<Stringify(UpdateFn(c.updateFn, Head(rs)).v)>>
              ELSE <<Stringify(Head(rs))>>))
       \o Rewritten(c, Tail(rs))

\* C2: during a mutation the source path holds the whole pre-mutation
\* content in every state up to the rename and the whole transformed content
\* from the rename on; no state has a partial result at the source path.
C2_SourceWholeOldOrWholeNew ==
  call.op \in MutationOps =>
    IF pc \in {"mut_loop", "add_ensure", "add_append", "rename"} \/ taskErr # "none"
    THEN files["src"] = pre
    ELSE files["src"] = [exists |-> TRUE,
                         data |-> JoinLines(Rewritten(call, DiskRecords(pre)))]

\* mid-traversal: the scratch file holds a part of the result, the source is whole
C2_Witness ==
  /\ InMutation
  /\ pc = "mut_loop"
  /\ files["tmp"].exists
  /\ CountLines(files["tmp"]) >= 1
  /\ CountLines(files["tmp"]) < CountLines(files["src"])
  /\ rl.pos < Len(rl.lines)

\* C3: after deleteMatch(p) / deleteWhere(attr, v) the file holds exactly the
\* records that do not match, in their original order, and count() has
\* dropped by the number of matching records; also when every record matches.
C3_DeleteRemovesExactlyMatching ==
  (Settled(DeleteOps) /\ pre.exists /\ TotalOn(call, DiskRecords(pre)))
    => /\ result.status = "ok"
       /\ files["src"].exists
       /\ DiskRecords(files["src"]) = Survivors(call, DiskRecords(pre))
       /\ CountLines(files["src"]) = CountLines(pre) - NumMatching(call, DiskRecords(pre))

\* updateFn returns a plain object for every record of rs the call applies it to
ReturnsObjects(c, rs) ==
  \A i \in 1..Len(rs) :
    Matches(c, rs[i]) = "true" => UpdateFn(c.updateFn, rs[i]).kind = "obj"

\* C4: on a file with at least one record and an updateFn returning plain
\* objects, updateWhere / updateMatch keep the number of records, replace
\* every matching record in place by updateFn(record) and leave every other
\* record, and the order, unchanged.
C4_UpdateReplacesInPlace ==
  LET before == DiskRecords(pre)
      after == DiskRecords(files["src"])
  IN (/\ Settled(UpdateOps)
      /\ pre.exists
      /\ Len(before) >= 1
      /\ TotalOn(call, before)
      /\ ReturnsObjects(call, before))
     => /\ result.status = "ok"
        /\ CountLines(files["src"]) = Len(before)
        /\ Len(after) = Len(before)
        /\ \A i \in 1..Len(before) :
             after[i] = IF Matches(call, before[i]) = "true"
                        THEN UpdateFn(call.updateFn, before[i]).v
                        ELSE before[i]

\* an update that changed two of three records and kept the third
C4_Witness ==
  /\ Settled(UpdateOps)
  /\ result.status = "ok"
  /\ Len(DiskRecords(pre)) = 3
  /\ NumMatching(call, DiskRecords(pre)) = 2
  /\ DiskRecords(files["src"])[1] # DiskRecords(pre)[1]
  /\ DiskRecords(files["src"])[2] = DiskRecords(pre)[2]
  /\ DiskRecords(files["src"])[3] # DiskRecords(pre)[3]

\* C5: starting from an absent file, after a sequence of awaited add / addMany
\* calls count() equals the number of objects passed to the calls that
\* succeeded.
C5_CountEqualsObjectsAdded ==
  (Settled({"count"}) /\ onlyAdds /\ follows = "add")
    => /\ result.status = "ok"
       /\ result.value = Len(log)

\* C6: a read whose callback never signals stop invokes it once per record in
\* on-disk order, and the on-disk order after awaited add / addMany calls is
\* the order in which the objects were added.
C6_ReadVisitsInAppendOrder ==
  /\ (Settled({"read"}) /\ call.stopAt = 0) => visited = DiskRecords(files["src"])
  /\ (pc \in {"idle", "done"} /\ onlyAdds) => DiskRecords(files["src"]) = log

\* three different records added by an add and an addMany, read back in order
C6_Witness ==
  /\ Settled({"read"})
  /\ call.stopAt = 0
  /\ onlyAdds
  /\ Len(visited) = 3
  /\ visited = log
  /\ visited[1] # visited[2]
  /\ visited[2] # visited[3]
  /\ visited[1] # visited[3]

Ceil(n, k) == (n + k - 1) \div k

RECURSIVE Flatten(_)
Flatten(bs) == IF bs = << >> THEN << >> ELSE Head(bs) \o Flatten(Tail(bs))

\* C7: on a file of n decodable records, with batch size k >= 1 and a
\* callback that never stops, readByBatch and createJsonlFile.read deliver
\* ceil(n/k) batches, each of k records except possibly the last, none empty,
\* whose concatenation is the records in file order.
C7_BatchesPartitionFile ==
  LET n == Len(DiskRecords(pre))
      k == call.batchSize
  IN (Settled(BatchOps) /\ call.stopAt = 0 /\ k >= 1 /\ pre.exists)
     => /\ result.status = "ok"
        /\ Len(batches) = Ceil(n, k)
        /\ \A i \in 1..Len(batches) :
             /\ Len(batches[i]) >= 1
             /\ Len(batches[i]) <= k
             /\ i < Len(batches) => Len(batches[i]) = k
        /\ Flatten(batches) = DiskRecords(pre)

\* n a multiple of k: the one full batch is delivered once
C7_Witness ==
  /\ Settled({"readByBatch"})
  /\ call.stopAt = 0
  /\ call.batchSize = 2
  /\ Len(DiskRecords(pre)) = 2
  /\ Len(batches) = 1

\* C8: once onBatch has signalled stop, readByBatch and createJsonlFile.read
\* never invoke it again in that call: no later batch, no final flush.
C8_NoBatchAfterStop ==
  (call.op \in BatchOps /\ call.stopAt > 0)
    => /\ Len(batches) <= call.stopAt
       /\ canEndGlobal => Len(batches) = call.stopAt

\* stop on the first batch of two records with a third record left in the file
C8_Witness ==
  /\ Settled({"lib.read"})
  /\ canEndGlobal
  /\ call.stopAt = 1
  /\ call.batchSize = 2
  /\ Len(DiskRecords(pre)) = 3
  /\ Len(batches) = 1

\* C9: when the read callback signals stop on the i-th record it is not
\* invoked for a later record in that call, and a following read of the same
\* file visits all records again from the first.
C9_StopEndsOneReadOnly ==
  /\ (call.op = "read" /\ call.stopAt > 0) => Len(visited) <= call.stopAt
  /\ (Settled({"read"}) /\ call.stopAt = 0 /\ follows = "stoppedRead")
       => visited = DiskRecords(files["src"])

\* a full read of three records right after a read that stopped early
C9_Witness ==
  /\ Settled({"read"})
  /\ call.stopAt = 0
  /\ follows = "stoppedRead"
  /\ Len(visited) = 3

\* C10: a second deleteMatch(p) right after a first deleteMatch(p) succeeds
\* and leaves the file content as the first call left it.
C10_SecondDeleteSucceedsUnchanged ==
  (/\ Settled({"deleteMatch"})
   /\ follows = "sameDelete"
   /\ pre.exists
   /\ TotalOn(call, DiskRecords(pre)))
    => /\ result.status = "ok"
       /\ files["src"] = pre

FirstMatch(q, rs) ==
  IF \E i \in 1..Len(rs) : rs[i][q.attr] = q.value
  THEN CHOOSE i \in 1..Len(rs) :
         /\ rs[i][q.attr] = q.value
         /\ \A j \in 1..(i - 1) : rs[j][q.attr] # q.value
  ELSE 0

\* C12: findWhere(attribute, value) returns the first record in file order
\* whose field equals the value and its callback sees no record after that
\* one; when no record matches, as after a deleteWhere that removed the
\* matching records, it sees every record and returns undefined.
C12_FindWhereFirstMatchThenStops ==
  LET rs == DiskRecords(pre)
      i == FirstMatch(call, rs)
  IN /\ (Settled({"findWhere"}) /\ pre.exists)
          => /\ result.status = "ok"
             /\ visited = SubSeq(rs, 1, IF i = 0 THEN Len(rs) ELSE i)
             /\ found = IF i = 0 THEN << >> ELSE <<rs[i]>>
     /\ (Settled({"findWhere"}) /\ follows = "deletedWhere") => found = << >>

\* the second of three records matches: it is returned and the third not seen
C12_Witness ==
  /\ Settled({"findWhere"})
  /\ Len(DiskRecords(pre)) = 3
  /\ FirstMatch(call, DiskRecords(pre)) = 2
  /\ Len(visited) = 2
  /\ found = <<DiskRecords(pre)[2]>>

RECURSIVE Satisfying(_, _)
Satisfying(p, rs) ==
  IF rs = << >> THEN << >>
  ELSE (IF MatchFn(p, Head(rs)) = "true" THEN <<Head(rs)>> ELSE << >>)
       \o Satisfying(p, Tail(rs))

\* C13: findMatch(p), with p raising on no record, passes every record of
\* the file to p, whatever p returns, and returns exactly the records
\* satisfying p in file order, the empty array when there is none.
C13_FindMatchVisitsAllReturnsMatching ==
  LET rs == DiskRecords(pre) IN
  (Settled({"findMatch"}) /\ pre.exists /\ TotalOn(call, rs))
    => /\ result.status = "ok"
       /\ visited = rs
       /\ found = Satisfying(call.matchFn, rs)

\* the first and the third of three records satisfy p: both are returned
C13_Witness ==
  /\ Settled({"findMatch"})
  /\ Len(DiskRecords(pre)) = 3
  /\ Len(visited) = 3
  /\ found = <<DiskRecords(pre)[1], DiskRecords(pre)[3]>>
  /\ DiskRecords(pre)[2] \notin {DiskRecords(pre)[1], DiskRecords(pre)[3]}

LibReadOps == {"lib.read", "lib.readLineByLine", "lib.count"}

\* C14: on any file content read, readLineByLine and count of
\* createJsonlFile resolve; with callbacks that never stop they deliver
\* exactly the decodable lines in file order, blank lines and lines that are
\* not JSON left out, and count() is the number of decodable lines.
C14_LibReadsSkipUndecodableLines ==
  /\ Settled(LibReadOps) => result.status = "ok"
  /\ (Settled({"lib.read"}) /\ call.stopAt = 0) => Flatten(batches) = DiskRecords(pre)
  /\ (Settled({"lib.readLineByLine"}) /\ call.stopAt = 0) => visited = DiskRecords(pre)
  /\ Settled({"lib.count"}) => result.value = Len(DiskRecords(pre))

\* one valid line and one line `not-json`: count() is 1
C14_Witness ==
  /\ Settled({"lib.count"})
  /\ pre.exists
  /\ pre.data = <<Stringify([name |-> "Alice", age |-> "25"]), NL, Junk>>
  /\ result.status = "ok"
  /\ result.value = 1

ReadOnlyOps == {"read", "readByBatch", "first", "last", "findWhere", "findMatch",
                "count", "countMatch", "lib.read", "lib.readLineByLine",
                "lib.count", "lib.isEmpty", "lib.exists"}

\* C15: no read-only operation changes the file: at every step of the call
\* and once it has settled, successfully or not, the content at the path is
\* what it was when the call was issued, blank and unparsable lines
\* included, an absent file is still absent, and no other file appeared.
C15_ReadOnlyOperationsLeaveFile ==
  call.op \in ReadOnlyOps => files["src"] = pre /\ files["tmp"] = Absent

\* a read rejected on a line that is not JSON; the line is still in the file
C15_Witness ==
  /\ Settled({"read"})
  /\ result.status = "error"
  /\ result.err = "SyntaxError"
  /\ \E i \in 1..Len(pre.data) : pre.data[i] = Junk
  /\ files["src"] = pre

\* the file exists and every line of it, if it has any, is blank
OnlyBlankLines(f) ==
  f.exists /\ \A i \in 1..Len(ReadLines(f.data)) : IsBlank(ReadLines(f.data)[i])

\* C16: on a file of zero bytes or of blank lines only, first() and last()
\* reject with the 'File is empty' error and return no value.
C16_FirstLastRejectFileIsEmpty ==
  (Settled({"first", "last"}) /\ OnlyBlankLines(pre))
    => /\ result.status = "error"
       /\ result.err = "FileIsEmpty"
       /\ found = << >>

\* C17: on a file with at least one decodable record first() returns the
\* first decodable record and last() the last one, also when blank or
\* unparsable lines come before the first record or after the last.
C17_FirstLastSkipUndecodableLines ==
  LET rs == DiskRecords(pre) IN
  (Settled({"first", "last"}) /\ pre.exists /\ Len(rs) >= 1)
    => /\ result.status = "ok"
       /\ found = <<IF call.op = "first" THEN rs[1] ELSE rs[Len(rs)]>>

RECURSIVE AsLines(_)
AsLines(chunks) == IF chunks = << >> THEN << >> ELSE <<<<Head(chunks)>>>> \o AsLines(Tail(chunks))

IsPrefix(a, b) == Len(a) <= Len(b) /\ a = SubSeq(b, 1, Len(a))

\* C19: a traversal (read, findMatch, count) by a second caller that
\* overlaps one mutation sees, line after line, the lines of the file as it
\* was before the mutation or those of the file the mutation commits, and
\* when it ends it has seen one of the two in full: never a mixture, never
\* a partly written file.
C19_TraversalSeesWholeOldOrWholeNew ==
  LET old == ReadLines(pre.data)
      new == AsLines(Rewritten(call, DiskRecords(pre)))
  IN (call.op \in MutationOps /\ trav.pc \in {"reading", "done"} /\ trav.err = "none")
     => /\ IsPrefix(trav.seen, old) \/ IsPrefix(trav.seen, new)
        /\ trav.pc = "done" => (trav.seen = old \/ trav.seen = new)

\* the traversal opened the file before the rename, read a line after it,
\* and has seen the old file in full
C19_Witness ==
  /\ call.op \in UpdateOps
  /\ pc = "done"
  /\ result.status = "ok"
  /\ files["src"] # pre
  /\ trav.pc = "done"
  /\ trav.err = "none"
  /\ trav.stale
  /\ Len(trav.seen) >= 2
  /\ trav.seen = ReadLines(pre.data)
  /\ trav.seen # ReadLines(files["src"].data)

\* the argument of the call is one add / addMany / the facade's add must
\* reject: not a plain object and not an array, or an array with an element
\* that is not a plain object
InvalidArgument(c) ==
  IF c.op = "addMany" /\ ~c.isArray THEN TRUE
  ELSE \E i \in 1..Len(c.items) : ~IsSingleJson(c.items[i])

\* C20: add, addMany and the facade's add reject an argument that is not a
\* plain object (add), not an array (addMany), neither of the two (facade)
\* or an array with an element that is not a plain object; the rejected
\* call appends nothing and creates no file.
C20_InvalidArgumentRejectedFileUntouched ==
  (Settled({"add", "addMany", "dir.add"}) /\ InvalidArgument(call))
    => /\ result.status = "error"
       /\ result.err = "InvalidInput"
       /\ files["src"] = pre

\* C21: appending the empty array, by jsonlFile.addMany([]), by the
\* facade's add([]) or by createJsonlFile.appendText([]), resolves and is a
\* no-op: an absent file is not created and an existing file is not
\* changed, so that count() is what it was.
C21_EmptyAppendIsNoOp ==
  (/\ call.op \in {"addMany", "dir.add", "lib.appendText"}
   /\ call.isArray
   /\ call.items = << >>)
    => /\ pc = "done"
       /\ result.status = "ok"
       /\ files["src"] = pre
       /\ files["tmp"] = Absent

\* appendText([]) on a path with no file: the file is still absent
C21_Witness ==
  /\ Settled({"lib.appendText"})
  /\ call.items = << >>
  /\ result.status = "ok"
  /\ ~pre.exists
  /\ ~files["src"].exists

\* C22: on a path with no file, read, readLineByLine and count of
\* createJsonlFile and find, findOne and count of the facade resolve
\* without invoking a callback, with nothing collected and a count of 0,
\* and the file is still absent.
C22_LibAbsentPathReadsAsEmpty ==
  (call.op \in LibReadOps \cup {"dir.find", "dir.findOne"} /\ ~pre.exists)
    => /\ pc = "done"
       /\ result.status = "ok"
       /\ result.value = 0
       /\ visited = << >>
       /\ batches = << >>
       /\ found = << >>
       /\ ~files["src"].exists
       /\ ~files["tmp"].exists

\* the facade's findOne on a path with no file
C22_Witness ==
  /\ Settled({"dir.findOne"})
  /\ ~pre.exists
  /\ result.status = "ok"
  /\ found = << >>
  /\ ~files["src"].exists

\* C23: on a path with no file, read, readByBatch, findWhere, findMatch,
\* count and countMatch of jsonlFile behave as on an empty file: they
\* resolve, no callback is invoked, nothing is collected and the count is 0.
C23_AbsentPathReadsAsEmpty ==
  (Settled({"read", "readByBatch", "findWhere", "findMatch", "count", "countMatch"})
   /\ ~pre.exists)
    => /\ result.status = "ok"
       /\ result.value = 0
       /\ visited = << >>
       /\ batches = << >>
       /\ found = << >>

\* C24: on every existing file, blank or unparsable lines included,
\* count(), countMatch(() => true) and the number of records a full read()
\* visits are one number: the number of JSON objects in the file, not the
\* number of its lines.
C24_CountIsNumberOfRecords ==
  LET n == Len(DiskRecords(pre)) IN
  pre.exists =>
    /\ Settled({"count"}) => (result.status = "ok" /\ result.value = n)
    /\ (Settled({"countMatch"}) /\ call.matchFn = "all")
         => (result.status = "ok" /\ result.value = n)
    /\ (Settled({"read"}) /\ call.stopAt = 0)
         => (result.status = "ok" /\ Len(visited) = n)

\* C25: deleteFile() on a path with no file rejects; after a deleteFile()
\* that resolved no file is at the path, and an add(o) that follows
\* re-creates the file with o as its only record.
C25_DeleteFileRejectsOnAbsentThenAddRecreates ==
  /\ Settled({"deleteFile"})
       => /\ ~files["src"].exists
          /\ IF pre.exists THEN result.status = "ok"
             ELSE result.status = "error" /\ result.err = "ENOENT"
  /\ (Settled({"add"}) /\ follows = "deletedFile" /\ IsSingleJson(call.items[1]))
       => /\ result.status = "ok"
          /\ files["src"] = [exists |-> TRUE, data |-> <<Stringify(call.items[1].v)>>]

\* an add right after the deleteFile of a file that held records
C25_Witness ==
  /\ Settled({"add"})
  /\ follows = "deletedFile"
  /\ result.status = "ok"
  /\ ~pre.exists
  /\ DiskRecords(files["src"]) = <<call.items[1].v>>

RECURSIVE UpdatedCopies(_, _, _)
UpdatedCopies(p, f, rs) ==
  IF rs = << >> THEN << >>
  ELSE (IF MatchFn(p, Head(rs)) = "true" THEN <<UpdateFn(f, Head(rs)).v>> ELSE << >>)
       \o UpdatedCopies(p, f, Tail(rs))

RECURSIVE NotSatisfying(_, _)
NotSatisfying(p, rs) ==
  IF rs = << >> THEN << >>
  ELSE (IF MatchFn(p, Head(rs)) = "false" THEN <<Head(rs)>> ELSE << >>)
       \o NotSatisfying(p, Tail(rs))

\* the callbacks of the call raise on no record of rs
DirTotalOn(c, rs) ==
  \A i \in 1..Len(rs) :
    /\ MatchFn(c.matchFn, rs[i]) # "throw"
    /\ (c.op = "dir.update" /\ MatchFn(c.matchFn, rs[i]) = "true")
         => UpdateFn(c.updateFn, rs[i]).kind # "throw"

\* C27: when its callbacks raise on no record, update of the facade returns,
\* in file order, updateFn(r) for exactly the records r satisfying matchFn,
\* and delete returns, in file order, exactly the records not satisfying
\* matchFn: the empty array when there is none, every record when matchFn
\* holds of none, whatever the batch size.
C27_FacadeUpdateDeleteReturn ==
  LET rs == DiskRecords(pre) IN
  (Settled({"dir.update", "dir.delete"}) /\ DirTotalOn(call, rs))
    => /\ result.status = "ok"
       /\ call.op = "dir.update" => found = UpdatedCopies(call.matchFn, call.updateFn, rs)
       /\ call.op = "dir.delete" => found = NotSatisfying(call.matchFn, rs)
       /\ (call.op = "dir.delete" /\ Satisfying(call.matchFn, rs) = << >>) => found = rs
       /\ (call.op = "dir.update" /\ Satisfying(call.matchFn, rs) = << >>) => found = << >>

\* a delete over a file of more than one batch that
\* returns the two records not matching and leaves out the one between them
C27_Witness ==
  /\ Settled({"dir.delete"})
  /\ call.batchSize = SmallBatch
  /\ Len(DiskRecords(pre)) = 3
  /\ Len(found) = 2
  /\ found = <<DiskRecords(pre)[1], DiskRecords(pre)[3]>>
  /\ MatchFn(call.matchFn, DiskRecords(pre)[2]) = "true"

\* the position in rs of the first record satisfying p, 0 when there is none
FirstSatisfying(p, rs) ==
  IF \E i \in 1..Len(rs) : MatchFn(p, rs[i]) = "true"
  THEN CHOOSE i \in 1..Len(rs) :
         /\ MatchFn(p, rs[i]) = "true"
         /\ \A j \in 1..(i - 1) : MatchFn(p, rs[j]) # "true"
  ELSE 0

\* C28: findOne(matchFn) of the facade, matchFn raising on no record it is
\* given, returns the first record in file order satisfying matchFn, for a
\* file smaller than a batch and for one larger; the batch holding that
\* record is the last one delivered; with no record satisfying matchFn it
\* returns undefined after every record was delivered.
C28_FacadeFindOneFirstMatch ==
  LET rs == DiskRecords(pre)
      i == FirstSatisfying(call.matchFn, rs)
      n == IF i = 0 THEN Len(rs) ELSE i
  IN (Settled({"dir.findOne"})
        /\ \A j \in 1..n : MatchFn(call.matchFn, rs[j]) # "throw")
       => /\ result.status = "ok"
          /\ found = IF i = 0 THEN << >> ELSE <<rs[i]>>
          /\ Len(batches) = Ceil(n, call.batchSize)
          /\ IsPrefix(Flatten(batches), rs)
          /\ n <= Len(Flatten(batches))

\* a file of three records read two at a time: the first record matches,
\* so does the third, and the second batch is never delivered
C28_Witness ==
  /\ Settled({"dir.findOne"})
  /\ call.batchSize = SmallBatch
  /\ Len(DiskRecords(pre)) = 3
  /\ MatchFn(call.matchFn, DiskRecords(pre)[1]) = "true"
  /\ MatchFn(call.matchFn, DiskRecords(pre)[3]) = "true"
  /\ DiskRecords(pre)[3] # DiskRecords(pre)[1]
  /\ found = <<DiskRecords(pre)[1]>>
  /\ Len(batches) = 1

\* both calls have settled: the add issued first without await, and the
\* mutation issued right after it
BothSettled ==
  /\ trav.pc = "done"
  /\ trav.op = "add"
  /\ Settled({"updateWhere", "deleteWhere"})

RECURSIVE RewrittenRecords(_, _)
RewrittenRecords(c, rs) ==
  IF rs = << >> THEN << >>
  ELSE (IF Matches(c, Head(rs)) # "true" THEN <<Head(rs)>>
        ELSE IF c.op \in DeleteOps THEN << >>
        ELSE <<UpdateFn(c.updateFn, Head(rs)).v>>)
       \o RewrittenRecords(c, Tail(rs))

\* the record the add in flight appends
Appended(t) == t.lines[Len(t.lines)].v

\* the records the file holds when add(o), issued on content d, and then
\* the call c run one after the other
InIssueOrder(c, d, o) == RewrittenRecords(c, ParseAll(ReadLines(d)) \o <<o>>)

\* C29: on a file that holds a record, add(o) issued without await and
\* updateWhere or deleteWhere issued right after it leave, once both have
\* settled and the second resolved, the records that the two calls leave
\* when the second is issued after the first has settled; the record
\* appended is neither lost nor on another record's line.
C29_UnawaitedCallsRunInIssueOrder ==
  (BothSettled /\ trav.seen # << >> /\ result.status = "ok")
    => /\ DiskRecords(files["src"]) = InIssueOrder(call, trav.seen, Appended(trav))
       /\ \A i \in 1..Len(ReadLines(files["src"].data)) :
             ParseOk(ReadLines(files["src"].data)[i])

\* C30: when onLine raises at its n-th invocation, readLineByLine rejects
\* with that error and visits no record after the n-th.
C30_OnLineErrorPropagates ==
  (/\ Settled({"lib.readLineByLine"})
   /\ call.signal = "throw"
   /\ call.stopAt > 0
   /\ Len(visited) >= call.stopAt)
    => /\ result.status = "error"
       /\ result.err = "CallbackError"
       /\ Len(visited) = call.stopAt

\* C31: readLineByLine halts at the invocation at which onLine returns a
\* truthy value, true or not, and with onLine returning nothing it visits
\* every record.
C31_AnyTruthyValueHalts ==
  /\ (/\ Settled({"lib.readLineByLine"})
      /\ call.signal \in {"true", "truthy"}
      /\ call.stopAt > 0
      /\ Len(visited) >= call.stopAt)
       => Len(visited) = call.stopAt
  /\ (Settled({"lib.readLineByLine"}) /\ call.stopAt = 0)
       => visited = DiskRecords(pre)

\* C32: readByBatch of jsonlFile and read of createJsonlFile, called with a
\* batch size that is not positive, reject with an argument error and pass
\* no batch to the callback.
C32_NonPositiveBatchSizeRejects ==
  (Settled({"readByBatch", "lib.read"}) /\ call.batchSize <= 0)
    => /\ result.status = "error"
       /\ result.err \notin {"ENOENT", "SyntaxError"}
       /\ batches = << >>

\* the file has a line that is not blank
HasNonBlankLine(f) ==
  f.exists /\ \E i \in 1..Len(ReadLines(f.data)) : ~IsBlank(ReadLines(f.data)[i])

NumBlankLines(f) ==
  Cardinality({i \in 1..Len(ReadLines(f.data)) : IsBlank(ReadLines(f.data)[i])})

AppendOps == {"add", "lib.appendText"}

\* C33: in add of jsonlFile and in appendText of createJsonlFile, the call
\* that ensures the file creates an absent file as empty, leaves an existing
\* one as it is, and returns "\n" exactly when the file has a line that is
\* not blank; the append then starts its first record at the start of a
\* line and adds no blank line to the file.
C33_EnsurePrefix ==
  /\ (call.op \in AppendOps /\ pc \in {"add_append", "lib_append"})
       => /\ files["src"] = [exists |-> TRUE, data |-> pre.data]
          /\ prefix = IF HasNonBlankLine(pre) THEN <<NL>> ELSE << >>
  /\ (Settled(AppendOps) /\ result.status = "ok" /\ files["src"] # pre)
       => /\ NumBlankLines(files["src"]) = NumBlankLines(pre)
          /\ \E i \in 1..Len(files["src"].data) :
                /\ files["src"].data[i] = MapStringify(call.items)[1]
                /\ i > Len(pre.data)
                /\ i = 1 \/ files["src"].data[i - 1] = NL

\* the file does not exist, has no byte, or has only blank lines
EmptyByContent(f) == ~HasNonBlankLine(f)

\* C34: isEmpty of createJsonlFile returns true exactly when the file does
\* not exist, has zero bytes or has only blank lines, and the emptiness
\* test on the append path of jsonlFile gives the same answer: add prefixes
\* a newline exactly when the file has a line that is not blank.
C34_IsEmptyByContent ==
  /\ Settled({"lib.isEmpty"})
       => result.status = "ok" /\ result.flag = EmptyByContent(pre)
  /\ (call.op = "add" /\ pc = "add_append")
       => (prefix = << >>) = EmptyByContent(pre)

\* C35: exists() answers true when the path is there and false when it is
\* not; when fs.access fails with another error, the operation that made
\* the check rejects with that error and every file is what it was.
C35_AccessErrorsAreRethrown ==
  /\ (Settled({"lib.exists"}) /\ call.access = "")
       => result.status = "ok" /\ result.flag = pre.exists
  /\ (pc = "done" /\ call.access \in AccessErrors)
       => /\ result.status = "error"
          /\ result.err = call.access
          /\ files = [p \in Paths |-> IF p = "src" THEN pre ELSE Absent]

\* add on a file holding a record, the lookup refused with EACCES
C35_Witness ==
  /\ Settled({"add"})
  /\ call.access = "EACCES"
  /\ result.err = "EACCES"
  /\ DiskRecords(pre) # << >>
  /\ files["src"] = pre

StreamOps == {"read", "readByBatch", "first", "last", "count", "findWhere",
              "findMatch", "countMatch", "lib.read", "lib.readLineByLine",
              "lib.count", "lib.isEmpty"} \cup MutationOps

\* C36: when an operation that reads has settled, by the end of the file,
\* by an early stop or by an error, every read stream it opened is closed.
C36_StreamsClosedAtSettle ==
  Settled(StreamOps) => rl.unclosed = 0

\* C37: starting from an absent file, after any sequence of add, addMany,
\* updateWhere / updateMatch and deleteWhere / deleteMatch calls of one
\* awaiting caller, the file, when it exists, is the JSON texts of its
\* records joined by single newlines: no newline first or last, no blank
\* line, every line a JSON object.
C37_FileIsRecordsJoinedByNewlines ==
  (pc \in {"idle", "done"} /\ files["src"].exists)
    => LET rs == DiskRecords(files["src"]) IN
       /\ files["src"].data = JoinLines(StringifyAll(rs))
       /\ \A i \in 1..Len(rs) : rs[i] \in Records

\* an update that resolved on a file of three records and changed it
C37_Witness ==
  /\ Settled(UpdateOps)
  /\ result.status = "ok"
  /\ Len(DiskRecords(files["src"])) = 3
  /\ files["src"] # pre
  /\ files["src"].data = JoinLines(StringifyAll(DiskRecords(files["src"])))

\* the traversal of the call hands no record to the scratch file
WritesNoRecord(c, rs) ==
  /\ TotalOn(c, rs)
  /\ IF c.op \in DeleteOps THEN Survivors(c, rs) = << >> ELSE rs = << >>

\* C38: a mutation that writes no record to the scratch file resolves and
\* leaves the file existing with no record: count() is 0 and the next add
\* computes an empty prefix.
C38_MutationWritingNothingSucceeds ==
  (Settled(MutationOps) /\ pre.exists /\ WritesNoRecord(call, DiskRecords(pre)))
    => /\ result.status = "ok"
       /\ files["src"].exists
       /\ CountLines(files["src"]) = 0
       /\ GetPrefix(files["src"]) = << >>

\* ---------------------------------------------------------------------------
\* updateWhere / updateMatch alone on a file built by add, with the event
\* loop running every continuation that is ready: the callback of a line
\* that was read, the append to the temporary file, the rename and the
\* removal of the temporary file all run once they are enabled
NextUpdate ==
  \/ \E o \in Values : StartAdd(o)
  \/ AddEnsure
  \/ AddAppend
  \/ \E q \in WhereQueries, f \in UpdateFns : StartUpdateWhere(q, f)
  \/ \E p \in MatchFns, f \in UpdateFns : StartUpdateMatch(p, f)
  \/ MutLoop
  \/ Rename
  \/ Cleanup
  \/ Return

SpecUpdate ==
  /\ Init
  /\ [][NextUpdate]_vars
  /\ WF_vars(MutLoop)
  /\ WF_vars(AddEnsure)
  /\ WF_vars(AddAppend)
  /\ WF_vars(Rename)
  /\ WF_vars(Cleanup)

\* the records of rs that satisfy the call's predicate, in order
MatchingRecords(c, rs) ==
  SelectSeq(rs, LAMBDA r : Matches(c, r) = "true")

\* an update call is between its start and its settlement
UpdateRunning == call.op \in UpdateOps /\ pc \notin {"idle", "done"}

\* the lines of the source whose callback has been entered
LinesEntered ==
  IF pc = "mut_loop" THEN rl.pos ELSE rl.pos + 1

\* updateFn has been invoked on exactly the matching records among the
\* source lines handled so far, once each and in file order
InvokedOncePerMatch ==
  /\ (call.op \in UpdateOps /\ pc \in {"mut_loop", "add_ensure", "add_append"}
      /\ ~rl.err)
       => found = MatchingRecords(call,
                    ParseAll(SubSeq(rl.lines, 1, LinesEntered)))
  /\ (call.op \in UpdateOps /\ pc \in {"rename", "cleanup", "done"} /\ pre.exists)
       => IsPrefix(found, MatchingRecords(call, DiskRecords(pre)))
  /\ (Settled(UpdateOps) /\ result.status = "ok")
       => found = MatchingRecords(call, DiskRecords(pre))

\* the call reads the lines the source had when the call started, front to
\* back, and what it writes goes to the temporary file only
SinglePass ==
  (call.op \in UpdateOps /\ pc \in {"mut_loop", "add_ensure", "add_append", "rename"}
   /\ pre.exists)
    => /\ rl.lines = ReadLines(pre.data)
       /\ rl.pos <= Len(rl.lines)
       /\ files["src"] = pre

\* C39: during one updateWhere / updateMatch call updateFn is invoked exactly
\* once for each matching record of the source, in file order, never for a
\* non-matching record nor for a record the call wrote; the call passes over
\* the source once and settles, also when the transformed records still
\* satisfy the predicate
C39_UpdateFnOncePerMatchAndTerminates ==
  /\ [](InvokedOncePerMatch /\ SinglePass)
  /\ (UpdateRunning ~> Settled(UpdateOps))

\* an update of two matching records settled, and the records it wrote
\* satisfy the predicate as well
C39_Witness ==
  /\ Settled(UpdateOps)
  /\ result.status = "ok"
  /\ Len(found) = 2
  /\ Len(MatchingRecords(call, DiskRecords(files["src"]))) >= 2
  /\ DiskRecords(files["src"]) # DiskRecords(pre)

====
